---- MODULE Spec2Model ----
(***************************************************************************)
(* A model of the DOOM WAD reader (package wad): the archive directory,    *)
(* the picture cache and post-stream decoder, the texture compositor and   *)
(* the level lookup.                                                       *)
(*                                                                         *)
(* Conventions.  A Go error return is the string field err ("" is nil).    *)
(* A run-time panic (index or slice bounds out of range, nil dereference,  *)
(* makeslice with a negative length) is the err value Panic: the call      *)
(* returns nothing and the state it had not yet written is left unwritten. *)
(* Pointers to pictures are references into the allocation list heap;      *)
(* reference 0 is the nil pointer.                                         *)
(***************************************************************************)
EXTENDS Integers, Sequences, FiniteSets, TLC

VARIABLES
    file,   \* the archive file on disk (never written: read-only reader)
    w,      \* the *WAD value held by the caller (w.open = FALSE: no archive)
    heap,   \* every Picture allocated by GetPicture, in allocation order
    ret,    \* what the last call returned
    user    \* the caller's memory: the sector prototype it passed last and
            \* the objects (cells) that reference-typed fields point to

vars == <<file, w, heap, ret, user>>

(***************************************************************************)
(* Primitive little-endian readers (encoding/binary, LittleEndian).        *)
(***************************************************************************)
Panic == "panic"
ErrEOF == "EOF"
ErrUnexpectedEOF == "unexpected EOF"

\* int16 from two bytes at 0-based position p of byte sequence b
Int16At(b, p) ==
    LET u == b[p + 1] + 256 * b[p + 2]
    IN  IF u >= 32768 THEN u - 65536 ELSE u

\* int32 from four bytes at 0-based position p of byte sequence b
Int32At(b, p) ==
    LET low  == b[p + 1] + 256 * b[p + 2] + 65536 * b[p + 3]
        high == IF b[p + 4] >= 128 THEN b[p + 4] - 256 ELSE b[p + 4]
    IN  16777216 * high + low

\* binary.Read of n bytes from a buffer holding have bytes: nil, io.EOF when
\* nothing could be read, io.ErrUnexpectedEOF when only a part could.
ReadErr(have, n) ==
    IF n = 0 \/ have >= n THEN ""
    ELSE IF have = 0 THEN ErrEOF ELSE ErrUnexpectedEOF

(***************************************************************************)
(* strings.ToUpper on the ASCII names of a directory.                      *)
(***************************************************************************)
LowerLetters == "abcdefghijklmnopqrstuvwxyz"
UpperLetters == "ABCDEFGHIJKLMNOPQRSTUVWXYZ"

UpperChar(c) ==
    IF \E i \in 1..26 : SubSeq(LowerLetters, i, i) = c
    THEN LET i == CHOOSE j \in 1..26 : SubSeq(LowerLetters, j, j) = c
         IN  SubSeq(UpperLetters, i, i)
    ELSE c

RECURSIVE ToUpper(_)
ToUpper(s) ==
    IF Len(s) = 0 THEN ""
    ELSE UpperChar(SubSeq(s, 1, 1)) \o ToUpper(SubSeq(s, 2, Len(s)))

(***************************************************************************)
(* The picture (patch) lump format read by GetPicture.                     *)
(***************************************************************************)
PatchHeaderSize == 8    \* binPatchImageHeader: four int16
EndOfColumn == 255      \* a top delta of 0xFF ends the posts of a column

\* binary.Read(reader, LittleEndian, &header)
PatchHeader(lump) ==
    [Width      |-> Int16At(lump, 0),
     Height     |-> Int16At(lump, 2),
     LeftOffset |-> Int16At(lump, 4),
     TopOffset  |-> Int16At(lump, 6)]

\* A post writer that repeats the first pixel of the post in every row
WritePostFirstPixel(column, lump, topDelta, numPixels, from) ==
    [r \in 1..Len(column) |->
        IF r - 1 >= topDelta /\ r - 1 < topDelta + numPixels
        THEN lump[from + 1]
        ELSE column[r]]

\* One post written into a column: rows topDelta .. topDelta+numPixels-1 take
\* the bytes of lump at 0-based positions from .. from+numPixels-1.
WritePost(column, lump, topDelta, numPixels, from) ==
    [r \in 1..Len(column) |->
        IF r - 1 >= topDelta /\ r - 1 < topDelta + numPixels
        THEN lump[from + (r - 1 - topDelta) + 1]
        ELSE column[r]]

\* The statement columns[columnIndex][topDelta+i] = lump[offset] panics for
\* some i in 0 .. numPixels-1
PostFaults(column, lump, topDelta, numPixels, from) ==
    \E i \in 0..(numPixels - 1) :
        \/ topDelta + i >= Len(column)
        \/ from + i >= Len(lump)

\* The inner for-loop of GetPicture over the posts of one column, starting at
\* 0-based lump position offset.  [fault, column]
RECURSIVE ExpandPosts(_, _, _)
ExpandPosts(column, lump, offset) ==
    IF offset < 0 \/ offset >= Len(lump)
    THEN [fault |-> TRUE, column |-> column]            \* lump[offset]
    ELSE LET topDelta == lump[offset + 1]
         IN  IF topDelta = EndOfColumn
             THEN [fault |-> FALSE, column |-> column]
             ELSE IF offset + 1 >= Len(lump)
             THEN [fault |-> TRUE, column |-> column]   \* lump[offset]
             ELSE LET numPixels == lump[offset + 2]
                      from      == offset + 3           \* count, padding
                  IN  IF PostFaults(column, lump, topDelta, numPixels, from)
                      THEN [fault |-> TRUE, column |-> column]
                      ELSE ExpandPosts(
                               WritePost(column, lump, topDelta, numPixels, from),
                               lump, from + numPixels + 1)

\* A column allocator that makes every column one cell too long
BlankColumnLong(height, transparentIndex) ==
    [r \in 1..(height + 1) |-> transparentIndex]

\* columns[i] = make(Column, header.Height), every cell w.TransparentIndex
BlankColumn(height, transparentIndex) ==
    [r \in 1..height |-> transparentIndex]

\* The decoding half of GetPicture, from the lump bytes to the Picture that is
\* cached.  [err, pic]
NoPicture ==
    [Name |-> "", Width |-> 0, Height |-> 0, LeftOffset |-> 0, TopOffset |-> 0,
     Columns |-> <<>>]

DecodePicture(lump, transparentIndex) ==
    IF ReadErr(Len(lump), PatchHeaderSize) # ""
    THEN [err |-> ReadErr(Len(lump), PatchHeaderSize), pic |-> NoPicture]
    ELSE
    LET header == PatchHeader(lump) IN
    IF header.Width < 0 \/ (header.Width > 0 /\ header.Height < 0)
    THEN [err |-> Panic, pic |-> NoPicture]             \* make: negative len
    ELSE
    LET blank   == BlankColumn(header.Height, transparentIndex)
        offsErr == ReadErr(Len(lump) - PatchHeaderSize, 4 * header.Width)
    IN
    IF offsErr # ""
    THEN [err |-> offsErr, pic |-> NoPicture]
    ELSE
    LET offsets  == [c \in 1..header.Width |->
                        Int32At(lump, PatchHeaderSize + 4 * (c - 1))]
        expanded == [c \in 1..header.Width |->
                        ExpandPosts(blank, lump, offsets[c])]
    IN
    IF \E c \in 1..header.Width : expanded[c].fault
    THEN [err |-> Panic, pic |-> NoPicture]
    ELSE [err |-> "",
          pic |-> [Name       |-> "",
                   Width      |-> header.Width,
                   Height     |-> header.Height,
                   LeftOffset |-> 0,
                   TopOffset  |-> 0,
                   Columns    |-> [c \in 1..header.Width |-> expanded[c].column]]]

(***************************************************************************)
(* The archive file.  A directory entry carries what readInfoTables reads  *)
(* of it (Name, Filepos, Size; Name is the result of String8.String) and,  *)
(* as the content of the file at Filepos: avail, the number of bytes the   *)
(* file holds from Filepos to its end; data, the first min(Size, avail)    *)
(* bytes (kept for picture lumps); pnames, the names of a PNAMES body;     *)
(* tex, the binTextureHeader/binPatch records of a TEXTUREn body, in the   *)
(* order of its offset table.                                              *)
(***************************************************************************)
HeaderSize == 12            \* binHeader: Magic [4]byte, NumLumps, InfoTableOfs
PlaypalSize == 10752        \* Palettes: 14 palettes of 256 RGB triplets
ColorMapsSize == 8704       \* ColorMaps: 34 maps of 256 bytes
EndoomSize == 4000          \* Endoom [4000]byte

\* w.seek: os.File.Seek to an absolute offset fails on a negative offset, and
\* otherwise lands on the offset asked for.
seek(offset) == IF offset < 0 THEN "seek: invalid argument" ELSE ""

\* The Go map lookups m[k] with the comma-ok form, on a TLA+ function.
Has(m, k) == k \in DOMAIN m

\* w.seekLumpName(name)
seekLumpName(lumpNums, lumpInfos, name) ==
    IF ~Has(lumpNums, name) THEN "lump not found"
    ELSE seek(lumpInfos[lumpNums[name] + 1].Filepos)

\* readInfoTables: the directory entries 0 .. n-1 of the file become
\* lumpInfos; lumpNums keeps the last index of each name; an entry named
\* THINGS registers the entry before it as a level.  [err, lumpInfos,
\* lumpNums, levels, entriesRead]
LumpInfoOf(e) == [Name |-> e.Name, Filepos |-> e.Filepos, Size |-> e.Size]

LastIndexOf(infos, name) ==
    CHOOSE i \in 1..Len(infos) :
        /\ infos[i].Name = name
        /\ \A j \in (i + 1)..Len(infos) : infos[j].Name # name

NoTables(e, n) ==
    [err |-> e, lumpInfos |-> <<>>, lumpNums |-> <<>>, levels |-> <<>>,
     entriesRead |-> n]

readInfoTables(f) ==
    IF seek(f.InfoTableOfs) # "" THEN NoTables(seek(f.InfoTableOfs), 0)
    ELSE IF f.NumLumps < 0 THEN NoTables(Panic, 0)      \* make: negative len
    ELSE
    LET n     == IF f.NumLumps <= Len(f.dir) THEN f.NumLumps ELSE Len(f.dir)
        infos == [i \in 1..n |-> LumpInfoOf(f.dir[i])]
        names == {infos[i].Name : i \in 1..n}
        \* the first entry named THINGS at index 0 indexes lumpInfos[-1]
        things == {i \in 1..n : infos[i].Name = "THINGS"}
    IN
    IF 1 \in things THEN NoTables(Panic, 1)
    ELSE IF f.NumLumps > Len(f.dir)
    THEN NoTables(ErrEOF, n)                            \* file ends early
    ELSE [err |-> "",
          lumpInfos |-> infos,
          lumpNums |-> [nm \in names |-> LastIndexOf(infos, nm) - 1],
          levels |->
              LET lv == {infos[i - 1].Name : i \in things}
              IN  [nm \in lv |->
                      (CHOOSE i \in things :
                          /\ infos[i - 1].Name = nm
                          /\ \A j \in things :
                                infos[j - 1].Name = nm => j <= i) - 2],
          entriesRead |-> n]

\* readPlaypal, readColorMaps, readEndoom: a fixed-size record read at the
\* lump of the given name.
readFixed(f, lumpNums, lumpInfos, name, size) ==
    IF seekLumpName(lumpNums, lumpInfos, name) # ""
    THEN seekLumpName(lumpNums, lumpInfos, name)
    ELSE ReadErr(f.dir[lumpNums[name] + 1].avail, size)

\* readPatchNames: [err, patchNames]
readPatchNames(f, lumpNums, lumpInfos) ==
    IF seekLumpName(lumpNums, lumpInfos, "PNAMES") # ""
    THEN [err |-> seekLumpName(lumpNums, lumpInfos, "PNAMES"), patchNames |-> <<>>]
    ELSE LET e == f.dir[lumpNums["PNAMES"] + 1]
         IN  IF ReadErr(e.avail, 4) # ""
             THEN [err |-> ReadErr(e.avail, 4), patchNames |-> <<>>]
             ELSE IF ReadErr(e.avail - 4, 8 * Len(e.pnames)) # ""
             THEN [err |-> ReadErr(e.avail - 4, 8 * Len(e.pnames)),
                   patchNames |-> <<>>]
             ELSE [err |-> "",
                   patchNames |-> [i \in 1..Len(e.pnames) |-> ToUpper(e.pnames[i])]]

(***************************************************************************)
(* GetPicture on the cache (Pictures, PicturesNil) and the allocation list *)
(* hp.  [err, ref, hit, Pictures, PicturesNil, heap]; hit tells that the    *)
(* call returned at the cache lookup.                                      *)
(***************************************************************************)
NilRef == 0

\* n, err := w.file.Read(lump) for a lump of size bytes where the file holds
\* avail bytes from the lump's position
FileReadErr(size, avail) ==
    IF size = 0 THEN ""
    ELSE IF avail = 0 THEN ErrEOF
    ELSE IF avail < size THEN "truncated lump"
    ELSE ""

\* A lookup that never finds the name in the cache
CacheNeverHit(pics, picsNil, name) == FALSE

\* A failure path that drops the cache
GetPictureFailDropsCache(pics, hp, e) ==
    [err |-> e, ref |-> 0, hit |-> FALSE, Pictures |-> <<>>,
     PicturesNil |-> FALSE, heap |-> hp]

\* else if p, ok := w.Pictures[name]; ok  (the map was not nil)
CacheHit(pics, picsNil, name) == ~picsNil /\ Has(pics, name)

\* return nil, err: the cache as GetPicture leaves it when it fails
GetPictureFail(pics, hp, e) ==
    [err |-> e, ref |-> NilRef, hit |-> FALSE, Pictures |-> pics,
     PicturesNil |-> FALSE, heap |-> hp]

\* w.Pictures[name] = &Picture{...}; return w.Pictures[name], nil
GetPictureStore(pics, hp, name, pic) ==
    [err |-> "",
     ref |-> Len(hp) + 1,
     hit |-> FALSE,
     Pictures |-> [k \in DOMAIN pics \cup {name} |->
                      IF k = name THEN Len(hp) + 1 ELSE pics[k]],
     PicturesNil |-> FALSE,
     heap |-> Append(hp, pic)]

GetPictureOp(f, lumpNums, lumpInfos, transparentIndex, pics, picsNil, hp, name0) ==
    LET name == ToUpper(name0) IN
    IF CacheHit(pics, picsNil, name)
    THEN [err |-> "", ref |-> pics[name], hit |-> TRUE, Pictures |-> pics,
          PicturesNil |-> FALSE, heap |-> hp]
    ELSE IF ~Has(lumpNums, name)
    THEN GetPictureFail(pics, hp, name \o " lump not found")
    ELSE
    LET lumpInfo == lumpInfos[lumpNums[name] + 1]
        entry    == f.dir[lumpNums[name] + 1]
    IN
    IF seek(lumpInfo.Filepos) # ""
    THEN GetPictureFail(pics, hp, seek(lumpInfo.Filepos))
    ELSE IF lumpInfo.Size < 0
    THEN GetPictureFail(pics, hp, Panic)                \* make: negative len
    ELSE IF FileReadErr(lumpInfo.Size, entry.avail) # ""
    THEN GetPictureFail(pics, hp, FileReadErr(lumpInfo.Size, entry.avail))
    ELSE
    LET d == DecodePicture(entry.data, transparentIndex) IN
    IF d.err # "" THEN GetPictureFail(pics, hp, d.err)
    ELSE GetPictureStore(pics, hp, name, d.pic)

(***************************************************************************)
(* The offset of w.file.  The file is opened once by NewWAD and every      *)
(* later call works on the same handle, so the offset a call leaves is the *)
(* offset the next call starts from.  fp = [pos, ops]: pos is the offset,  *)
(* ops the file operations of the call so far, a seek as                   *)
(* [op, lump, want, at] with want the offset asked for and at the offset   *)
(* the file is left on, a read as [op, lump, want, at] with want the       *)
(* number of bytes asked for and at the offset the bytes are read from;    *)
(* lump is the directory index the operation is made for.                  *)
(***************************************************************************)
\* A w.seek that reports success without moving the offset
seekStays(pos, offset) == [err |-> "", pos |-> pos]

\* off, err := w.file.Seek(offset, io.SeekStart)
FileSeek(pos, offset) ==
    IF offset < 0 THEN [off |-> pos, err |-> "seek: invalid argument"]
    ELSE [off |-> offset, err |-> ""]

\* w.seek(offset) with the file at pos: [err, pos]
seekFrom(pos, offset) ==
    LET s == FileSeek(pos, offset) IN
    IF s.err # "" THEN [err |-> s.err, pos |-> s.off]
    ELSE IF s.off # offset THEN [err |-> "seek failed", pos |-> s.off]
    ELSE [err |-> "", pos |-> s.off]

\* fp after w.seek(offset) made for directory index lump
Seeked(fp, lump, offset) ==
    [pos |-> seekFrom(fp.pos, offset).pos,
     ops |-> Append(fp.ops, [op |-> "Seek", lump |-> lump, want |-> offset,
                             at |-> seekFrom(fp.pos, offset).pos])]

\* fp after a read of n bytes made for directory index lump, the file
\* holding have bytes from its offset on: the offset moves over the bytes
\* that were read
ReadFrom(fp, lump, n, have) ==
    [pos |-> fp.pos + (IF have < n THEN have ELSE n),
     ops |-> Append(fp.ops, [op |-> "Read", lump |-> lump, want |-> n,
                             at |-> fp.pos])]

\* The bytes the file holds from offset pos on, for a file that holds avail
\* bytes from offset filepos on
BytesFrom(pos, filepos, avail) ==
    IF avail + filepos - pos < 0 THEN 0 ELSE avail + filepos - pos

\* The file operations of GetPicture(name0), the file at fp.pos
GetPictureFile(f, lumpNums, lumpInfos, pics, picsNil, name0, fp) ==
    LET name == ToUpper(name0) IN
    IF CacheHit(pics, picsNil, name) \/ ~Has(lumpNums, name) THEN fp
    ELSE
    LET num      == lumpNums[name]
        lumpInfo == lumpInfos[num + 1]
        s        == Seeked(fp, num, lumpInfo.Filepos)
    IN
    IF seekFrom(fp.pos, lumpInfo.Filepos).err # "" \/ lumpInfo.Size < 0 THEN s
    ELSE ReadFrom(s, num, lumpInfo.Size,
                  BytesFrom(s.pos, lumpInfo.Filepos, f.dir[num + 1].avail))

\* readPatchPics: GetPicture for every patch name, errors logged and skipped;
\* a panic of GetPicture is not recovered.  [err, Pictures, PicturesNil, heap]
RECURSIVE readPatchPics(_, _, _, _, _, _, _, _)

\* The loop body after GetPicture returned g for the first name of pnames
readPatchPicsNext(f, lumpNums, lumpInfos, transparentIndex, pnames, g) ==
    IF g.err = Panic
    THEN [err |-> Panic, Pictures |-> g.Pictures,
          PicturesNil |-> g.PicturesNil, heap |-> g.heap]
    ELSE readPatchPics(f, lumpNums, lumpInfos, transparentIndex,
                       g.Pictures, g.PicturesNil, g.heap, Tail(pnames))

readPatchPics(f, lumpNums, lumpInfos, transparentIndex, pics, picsNil, hp, pnames) ==
    IF Len(pnames) = 0
    THEN [err |-> "", Pictures |-> pics, PicturesNil |-> picsNil, heap |-> hp]
    ELSE readPatchPicsNext(f, lumpNums, lumpInfos, transparentIndex, pnames,
                           GetPictureOp(f, lumpNums, lumpInfos, transparentIndex,
                                        pics, picsNil, hp, Head(pnames)))

(***************************************************************************)
(* readTextures: the composite picture of a texture.                       *)
(***************************************************************************)
Min(a, b) == IF a <= b THEN a ELSE b

\* copy(dst[destY:], src[sourceY:]) on one column: the number of bytes copied
\* is the shorter of the two slices.
CopyColumn(dst, destY, src, sourceY) ==
    LET n == Min(Len(dst) - destY, Len(src) - sourceY)
    IN  [r \in 1..Len(dst) |->
            IF r - 1 >= destY /\ r - 1 < destY + n
            THEN src[sourceY + (r - 1 - destY) + 1]
            ELSE dst[r]]

\* The body of the loop over texture.Patches for one patch p whose picture is
\* pic: [fault, columns].  The slice expressions dst[destY:] and
\* src[sourceY:] panic when the bound exceeds the length.
BlitPatch(columns, p, pic) ==
    LET sourceYOffset == IF p.YOffset < 0 THEN -p.YOffset ELSE 0
        destY         == IF p.YOffset < 0 THEN 0 ELSE p.YOffset
        inRange(y)    == p.XOffset + y >= 0 /\ p.XOffset + y < Len(columns)
        srcOf(x)      == pic.Columns[x - p.XOffset + 1]     \* x is 0-based
    IN
    IF \E y \in 0..(Len(pic.Columns) - 1) :
           /\ inRange(y)
           /\ \/ destY > Len(columns[p.XOffset + y + 1])
              \/ sourceYOffset > Len(pic.Columns[y + 1])
    THEN [fault |-> TRUE, columns |-> columns]
    ELSE [fault |-> FALSE,
          columns |->
              [c \in 1..Len(columns) |->
                  IF c - 1 - p.XOffset >= 0 /\ c - 1 - p.XOffset < Len(pic.Columns)
                  THEN CopyColumn(columns[c], destY, srcOf(c - 1), sourceYOffset)
                  ELSE columns[c]]]

\* The loop over texture.Patches, in patch order.  A patch whose Picture is
\* the nil pointer faults at p.Picture.Columns.
RECURSIVE BlitPatches(_, _, _)
BlitPatches(columns, patches, hp) ==
    IF Len(patches) = 0 THEN [fault |-> FALSE, columns |-> columns]
    ELSE LET p == Head(patches)
         IN  IF p.Picture = NilRef THEN [fault |-> TRUE, columns |-> columns]
             ELSE LET b == BlitPatch(columns, p, hp[p.Picture])
                  IN  IF b.fault THEN b
                      ELSE BlitPatches(b.columns, Tail(patches), hp)

\* One texture of a TEXTUREn lump, from its binary records bt: [fault, texture]
NoTexture ==
    [Name |-> "", Index |-> 0, IsMasked |-> FALSE, Width |-> 0, Height |-> 0,
     Patches |-> <<>>, Picture |-> NoPicture]

\* The texture of record bt with the patches made of it, once the patches
\* were blitted with result b
TextureOf(bt, patches, index, b) ==
    IF b.fault THEN [fault |-> TRUE, texture |-> NoTexture]
    ELSE [fault |-> FALSE,
          texture |->
              [Name     |-> bt.TextureName,
               Index    |-> index,
               IsMasked |-> bt.Masked # 0,
               Width    |-> bt.Width,
               Height   |-> bt.Height,
               Patches  |-> patches,
               Picture  |-> [Name       |-> bt.TextureName,
                             Width      |-> bt.Width,
                             Height     |-> bt.Height,
                             LeftOffset |-> 0,
                             TopOffset  |-> 0,
                             Columns    |-> b.columns]]]

\* The composite of record bt: columns of Height zero bytes each, the patches
\* blitted in order
ComposeTexture(bt, patches, hp, index) ==
    IF bt.Width < 0 \/ (bt.Width > 0 /\ bt.Height < 0)
    THEN [fault |-> TRUE, texture |-> NoTexture]    \* make: negative len
    ELSE TextureOf(bt, patches, index,
                   BlitPatches([c \in 1..bt.Width |-> [r \in 1..bt.Height |-> 0]],
                               patches, hp))

BuildTexture(bt, patchNames, pics, hp, index) ==
    IF bt.NumPatches < 0 THEN [fault |-> TRUE, texture |-> NoTexture]
    ELSE IF \E i \in 1..bt.NumPatches :
                \/ bt.patches[i].PatchNameIdx < 0
                \/ bt.patches[i].PatchNameIdx >= Len(patchNames)
    THEN [fault |-> TRUE, texture |-> NoTexture]    \* w.patchNames[idx]
    ELSE
    ComposeTexture(bt,
                   [i \in 1..bt.NumPatches |->
                       LET nm == patchNames[bt.patches[i].PatchNameIdx + 1]
                       IN  [XOffset |-> bt.patches[i].XOffset,
                            YOffset |-> bt.patches[i].YOffset,
                            Picture |-> IF Has(pics, nm) THEN pics[nm] ELSE NilRef]],
                   hp, index)

\* The textures of one lump appended to texturesList: [err, list]
RECURSIVE BuildTextures(_, _, _, _, _)

\* The loop body after the first record of bts was built with result t
BuildTexturesNext(bts, patchNames, pics, hp, list, t) ==
    IF t.fault THEN [err |-> Panic, list |-> list]
    ELSE BuildTextures(Tail(bts), patchNames, pics, hp, Append(list, t.texture))

BuildTextures(bts, patchNames, pics, hp, list) ==
    IF Len(bts) = 0 THEN [err |-> "", list |-> list]
    ELSE BuildTexturesNext(bts, patchNames, pics, hp, list,
                           BuildTexture(Head(bts), patchNames, pics, hp, Len(list)))

TextureLumpNames ==
    <<"TEXTURE1", "TEXTURE2", "TEXTURE3", "TEXTURE4", "TEXTURE5",
      "TEXTURE6", "TEXTURE7", "TEXTURE8", "TEXTURE9">>

\* The loop of readTextures over TEXTURE1 .. TEXTURE9 from lump number i on:
\* [err, list]
RECURSIVE readTextureLumps(_, _, _, _, _, _, _, _)

\* The loop body for the lump TEXTUREi: b is what the loop over its textures
\* returned, or no error and the list unchanged when the lump is missing or
\* cannot be sought (continue)
readTextureLumpsNext(f, lumpNums, lumpInfos, patchNames, pics, hp, i, b) ==
    IF b.err # "" THEN [err |-> b.err, list |-> b.list]
    ELSE readTextureLumps(f, lumpNums, lumpInfos, patchNames, pics, hp, b.list,
                          i + 1)

\* The lump at directory entry e read as a texture lump: [err, list]
readTextureLump(e, patchNames, pics, hp, list) ==
    IF ReadErr(e.avail, 4) # "" THEN [err |-> ReadErr(e.avail, 4), list |-> list]
    ELSE IF ReadErr(e.avail - 4, 4 * Len(e.tex)) # ""
    THEN [err |-> ReadErr(e.avail - 4, 4 * Len(e.tex)), list |-> list]
    ELSE BuildTextures(e.tex, patchNames, pics, hp, list)

readTextureLumps(f, lumpNums, lumpInfos, patchNames, pics, hp, list, i) ==
    IF i > Len(TextureLumpNames) THEN [err |-> "", list |-> list]
    ELSE readTextureLumpsNext(f, lumpNums, lumpInfos, patchNames, pics, hp, i,
             IF \/ ~Has(lumpNums, TextureLumpNames[i])
                \/ seekLumpName(lumpNums, lumpInfos, TextureLumpNames[i]) # ""
             THEN [err |-> "", list |-> list]
             ELSE readTextureLump(f.dir[lumpNums[TextureLumpNames[i]] + 1],
                                  patchNames, pics, hp, list))

\* readTextures: [err, Textures, TexturesList]; Textures maps a name to the
\* Index of the texture that the map holds for it (the last one of that name).
TexturesRead(r) ==
    IF r.err # "" THEN [err |-> r.err, Textures |-> <<>>, TexturesList |-> <<>>]
    ELSE [err |-> "",
          Textures |-> [nm \in {r.list[i].Name : i \in 1..Len(r.list)} |->
                          (CHOOSE i \in 1..Len(r.list) :
                              /\ r.list[i].Name = nm
                              /\ \A j \in (i + 1)..Len(r.list) :
                                    r.list[j].Name # nm) - 1],
          TexturesList |-> r.list]

readTextures(f, lumpNums, lumpInfos, patchNames, pics, hp) ==
    TexturesRead(readTextureLumps(f, lumpNums, lumpInfos, patchNames, pics, hp,
                                  <<>>, 1))

(***************************************************************************)
(* readFlats, readSprites, readSounds, readMusic.                          *)
(***************************************************************************)
FlatWidth == 64
FlatHeight == 64
SoundHeaderSize == 24       \* binSoundHeader: uint16, uint16, uint32, [16]byte
MusicHeaderSize == 16       \* binMusicHeader
SoundFormat == 3            \* header.Format of a DMX sound

SoundPadBytes == 32         \* numSamples := header.Bytes - 32

\* a - b in uint32.  When a < b the difference wraps around to a - b + 2^32,
\* a count above every file size; it is kept as the largest 32-bit integer.
WrappedCount == 2147483647

SubUint32(a, b) == IF a >= b THEN a - b ELSE WrappedCount

\* The byte value of a one-character string (ASCII digits, letters and '_').
Digits == "0123456789"

Ord(c) ==
    IF \E i \in 1..10 : SubSeq(Digits, i, i) = c
    THEN 47 + (CHOOSE i \in 1..10 : SubSeq(Digits, i, i) = c)
    ELSE IF \E i \in 1..26 : SubSeq(UpperLetters, i, i) = c
    THEN 64 + (CHOOSE i \in 1..26 : SubSeq(UpperLetters, i, i) = c)
    ELSE IF \E i \in 1..26 : SubSeq(LowerLetters, i, i) = c
    THEN 96 + (CHOOSE i \in 1..26 : SubSeq(LowerLetters, i, i) = c)
    ELSE 95

\* s[i] for a 0-based index i of a Go string
ByteAt(s, i) == Ord(SubSeq(s, i + 1, i + 1))

\* The loop of readFlats over the directory indices i .. endLump-1 (0-based):
\* [err, list]; a flat keeps its name, its Index and the directory index of
\* the lump its 4096 bytes were read from.
RECURSIVE readFlatLumps(_, _, _, _, _)
readFlatLumps(f, lumpInfos, i, endLump, list) ==
    IF i >= endLump THEN [err |-> "", list |-> list]
    ELSE
    LET li == lumpInfos[i + 1] IN
    IF li.Size = 0 THEN readFlatLumps(f, lumpInfos, i + 1, endLump, list)
    ELSE IF seek(li.Filepos) # "" THEN [err |-> seek(li.Filepos), list |-> list]
    ELSE IF ReadErr(f.dir[i + 1].avail, FlatHeight * FlatWidth) # ""
    THEN [err |-> ReadErr(f.dir[i + 1].avail, FlatHeight * FlatWidth), list |-> list]
    ELSE readFlatLumps(f, lumpInfos, i + 1, endLump,
                       Append(list, [Name |-> li.Name, Index |-> Len(list),
                                     Lump |-> i]))

\* readFlats: [err, Flats, FlatsList]; Flats maps a name to the Index of the
\* flat the map holds for it.
readFlats(f, lumpNums, lumpInfos) ==
    IF ~Has(lumpNums, "F_START")
    THEN [err |-> "F_START not found", Flats |-> <<>>, FlatsList |-> <<>>]
    ELSE IF ~Has(lumpNums, "F_END")
    THEN [err |-> "F_END not found", Flats |-> <<>>, FlatsList |-> <<>>]
    ELSE
    LET r == readFlatLumps(f, lumpInfos, lumpNums["F_START"], lumpNums["F_END"], <<>>)
        names == {r.list[i].Name : i \in 1..Len(r.list)}
    IN
    IF r.err # "" THEN [err |-> r.err, Flats |-> <<>>, FlatsList |-> <<>>]
    ELSE [err |-> "",
          Flats |-> [nm \in names |->
                       (CHOOSE i \in 1..Len(r.list) :
                           /\ r.list[i].Name = nm
                           /\ \A j \in (i + 1)..Len(r.list) : r.list[j].Name # nm) - 1],
          FlatsList |-> r.list]

\* A SpriteFrame is [8]SpriteFrameDir, zero-valued when appended.
EmptyFrame == [d \in 1..8 |-> [Picture |-> NilRef, IsFlipped |-> FALSE]]

\* for (len(*sprite) - 1) < spriteframe { append }
GrowSprite(sprite, spriteframe) ==
    [k \in 1..(IF Len(sprite) > spriteframe THEN Len(sprite) ELSE spriteframe + 1) |->
        IF k <= Len(sprite) THEN sprite[k] ELSE EmptyFrame]

\* The body of the loop of readSprites for one lump name whose picture is
\* ref, on the sprite map: [fault, sprites].
SpriteLump(sprites, name, ref) ==
    IF Len(name) < 6 THEN [fault |-> TRUE, sprites |-> sprites]  \* Name[:4], [4], [5]
    ELSE
    LET spriteName  == SubSeq(name, 1, 4)
        spriteframe == (ByteAt(name, 4) - Ord("A")) % 256
        known       == Has(sprites, spriteName)
        grown       == GrowSprite(IF known THEN sprites[spriteName] ELSE <<>>,
                                  spriteframe)
        rotation    == (ByteAt(name, 5) - Ord("1")) % 256
        \* what the map holds when the sprite value is s: an existing sprite is
        \* written through its pointer, a new one only when it is stored
        through(s)  == IF known THEN [sprites EXCEPT ![spriteName] = s] ELSE sprites
        stored(s)   == [k \in DOMAIN sprites \cup {spriteName} |->
                           IF k = spriteName THEN s ELSE sprites[k]]
    IN
    IF rotation # 255 /\ rotation >= 8
    THEN [fault |-> TRUE, sprites |-> through(grown)]           \* sf[rotation]
    ELSE
    LET first == [grown EXCEPT ![spriteframe + 1] =
                    [d \in 1..8 |->
                        IF rotation = 255 \/ d = rotation + 1
                        THEN [@[d] EXCEPT !.Picture = ref]
                        ELSE @[d]]]
    IN
    IF Len(name) < 8 THEN [fault |-> FALSE, sprites |-> stored(first)]
    ELSE IF ByteAt(name, 4) # ByteAt(name, 6)
    THEN [fault |-> FALSE, sprites |-> through(first)]          \* continue
    ELSE
    LET rotation2 == (ByteAt(name, 7) - Ord("1")) % 256 IN
    IF rotation2 = 255 THEN [fault |-> FALSE, sprites |-> through(first)]
    ELSE IF rotation2 >= 8 THEN [fault |-> TRUE, sprites |-> through(first)]
    ELSE [fault |-> FALSE,
          sprites |-> stored([first EXCEPT ![spriteframe + 1][rotation2 + 1] =
                                 [Picture |-> ref, IsFlipped |-> TRUE]])]

\* The loop of readSprites over the directory indices i .. endLump-1:
\* [err, Sprites, Pictures, PicturesNil, heap]
RECURSIVE readSpriteLumps(_, _, _, _, _, _, _, _, _, _)

\* The loop body for directory index i after GetPicture returned g and the
\* sprite map became s = [fault, sprites]
readSpriteLumpsNext(f, lumpNums, lumpInfos, transparentIndex, i, endLump, g, s) ==
    IF g.err = Panic \/ s.fault
    THEN [err |-> Panic, Sprites |-> s.sprites, Pictures |-> g.Pictures,
          PicturesNil |-> g.PicturesNil, heap |-> g.heap]
    ELSE readSpriteLumps(f, lumpNums, lumpInfos, transparentIndex, g.Pictures,
                         g.PicturesNil, g.heap, s.sprites, i + 1, endLump)

\* The loop body for directory index i after GetPicture returned g
readSpriteLumpsGot(f, lumpNums, lumpInfos, transparentIndex, sprites, i, endLump, g) ==
    readSpriteLumpsNext(f, lumpNums, lumpInfos, transparentIndex, i, endLump, g,
        IF g.err # "" THEN [fault |-> FALSE, sprites |-> sprites]   \* continue
        ELSE SpriteLump(sprites, lumpInfos[i + 1].Name, g.ref))

readSpriteLumps(f, lumpNums, lumpInfos, transparentIndex, pics, picsNil, hp, sprites, i, endLump) ==
    IF i >= endLump
    THEN [err |-> "", Sprites |-> sprites, Pictures |-> pics,
          PicturesNil |-> picsNil, heap |-> hp]
    ELSE IF lumpInfos[i + 1].Size = 0
    THEN readSpriteLumps(f, lumpNums, lumpInfos, transparentIndex, pics, picsNil,
                         hp, sprites, i + 1, endLump)
    ELSE readSpriteLumpsGot(f, lumpNums, lumpInfos, transparentIndex, sprites, i,
                            endLump,
                            GetPictureOp(f, lumpNums, lumpInfos, transparentIndex,
                                         pics, picsNil, hp, lumpInfos[i + 1].Name))

readSprites(f, lumpNums, lumpInfos, transparentIndex, pics, picsNil, hp) ==
    LET none(e) == [err |-> e, Sprites |-> <<>>, Pictures |-> pics,
                    PicturesNil |-> picsNil, heap |-> hp]
    IN
    IF ~Has(lumpNums, "S_START") THEN none("S_START not found")
    ELSE IF ~Has(lumpNums, "S_END") THEN none("S_END not found")
    ELSE readSpriteLumps(f, lumpNums, lumpInfos, transparentIndex, pics, picsNil,
                         hp, <<>>, lumpNums["S_START"], lumpNums["S_END"])

\* The loop of readSounds over lumpInfos from 1-based position i on:
\* [err, Sounds]; a sound keeps its sample rate and its number of samples.
RECURSIVE readSoundLumps(_, _, _, _)
readSoundLumps(f, lumpInfos, sounds, i) ==
    IF i > Len(lumpInfos) THEN [err |-> "", Sounds |-> sounds]
    ELSE
    LET li == lumpInfos[i]
        e  == f.dir[i]
    IN
    IF Len(li.Name) < 2 THEN [err |-> Panic, Sounds |-> sounds]     \* Name[:2]
    ELSE IF SubSeq(li.Name, 1, 2) # "DS"
    THEN readSoundLumps(f, lumpInfos, sounds, i + 1)
    ELSE IF seek(li.Filepos) # "" THEN [err |-> seek(li.Filepos), Sounds |-> sounds]
    ELSE IF ReadErr(e.avail, SoundHeaderSize) # ""
    THEN [err |-> ReadErr(e.avail, SoundHeaderSize), Sounds |-> sounds]
    ELSE IF e.snd.Format # SoundFormat
    THEN readSoundLumps(f, lumpInfos, sounds, i + 1)
    ELSE
    LET numSamples == SubUint32(e.snd.Bytes, SoundPadBytes) IN
    IF ReadErr(e.avail - SoundHeaderSize, numSamples) # ""
    THEN [err |-> ReadErr(e.avail - SoundHeaderSize, numSamples), Sounds |-> sounds]
    ELSE readSoundLumps(f, lumpInfos,
             [k \in DOMAIN sounds \cup {li.Name} |->
                 IF k = li.Name
                 THEN [SampleRate |-> e.snd.SampleRate, NumSamples |-> numSamples]
                 ELSE sounds[k]],
             i + 1)

\* The loop of readMusic: the header and the instrument list of every D_ lump
\* are read and dropped; the error, if any.
RECURSIVE readMusicLumps(_, _, _)
readMusicLumps(f, lumpInfos, i) ==
    IF i > Len(lumpInfos) THEN ""
    ELSE
    LET li == lumpInfos[i]
        e  == f.dir[i]
    IN
    IF Len(li.Name) < 2 THEN Panic                                  \* Name[:2]
    ELSE IF SubSeq(li.Name, 1, 2) # "D_" THEN readMusicLumps(f, lumpInfos, i + 1)
    ELSE IF seek(li.Filepos) # "" THEN seek(li.Filepos)
    ELSE IF ReadErr(e.avail, MusicHeaderSize) # "" THEN ReadErr(e.avail, MusicHeaderSize)
    ELSE IF ReadErr(e.avail - MusicHeaderSize, 2 * e.mus.InstrumentCount) # ""
    THEN ReadErr(e.avail - MusicHeaderSize, 2 * e.mus.InstrumentCount)
    ELSE readMusicLumps(f, lumpInfos, i + 1)

\* The offset of the file after the loop of readMusic from directory entry i
\* (1-based) on returned nil, the file at pos before it: behind the
\* instrument list of the last D_ lump
RECURSIVE readMusicEnd(_, _, _, _)
readMusicEnd(f, lumpInfos, i, pos) ==
    IF i > Len(lumpInfos) THEN pos
    ELSE IF Len(lumpInfos[i].Name) < 2 \/ SubSeq(lumpInfos[i].Name, 1, 2) # "D_"
    THEN readMusicEnd(f, lumpInfos, i + 1, pos)
    ELSE readMusicEnd(f, lumpInfos, i + 1,
                      lumpInfos[i].Filepos + MusicHeaderSize
                          + 2 * f.dir[i].mus.InstrumentCount)

\* The offset of the file when NewWAD calls readMusic.  The offsets of the
\* phases before it are not followed: this value is no offset of the file,
\* and it is the offset NewWAD leaves only for an archive without D_ lumps.
OffsetBeforeMusic == -1

(***************************************************************************)
(* ReadLevel: the ten lumps after the level's directory entry, decoded     *)
(* into the tables of a Level, then setReferences.  The tables hold the    *)
(* decoded records; a level lump of the file holds its binary records in   *)
(* tbl (REJECT and BLOCKMAP hold bytes in data).                           *)
(***************************************************************************)
ThingSize == 10         \* unsafe.Sizeof(binThing{})
LineSize == 14          \* unsafe.Sizeof(binLine{})
SideSize == 30          \* unsafe.Sizeof(binSide{})
VertexSize == 4         \* unsafe.Sizeof(binVertex{})
SegmentSize == 12       \* unsafe.Sizeof(binLineSegment{})
SubSectorSize == 4      \* unsafe.Sizeof(binSubSector{})
NodeSize == 28          \* unsafe.Sizeof(binNode{})
SectorSize == 26        \* unsafe.Sizeof(binSector{})
BlockMapHeaderSize == 8 \* binBlockMapHeader: four int16
LevelLumps == 10        \* for i := levelIdx + 1; i < levelIdx+11; i++

\* Go's integer division, truncating toward zero
Quot(a, b) == IF a >= 0 THEN a \div b ELSE -((-a) \div b)

\* flags & mask != 0 for an int16 flags word and a one-bit mask
BitSet(flags, mask) == ((flags % 65536) \div mask) % 2 = 1

\* int16 arithmetic wraps around
WrapInt16(v) ==
    LET u == v % 65536 IN IF u >= 32768 THEN u - 65536 ELSE u

\* The common head of the table readers: count := Size / sizeof(record),
\* make([]record, count), binary.Read(w.file, ...).  [err, rows]
ReadTable(e, lumpInfo, recSize) ==
    LET count == Quot(lumpInfo.Size, recSize) IN
    IF count < 0 THEN [err |-> Panic, rows |-> <<>>]    \* make: negative len
    ELSE IF ReadErr(e.avail, count * recSize) # ""
    THEN [err |-> ReadErr(e.avail, count * recSize), rows |-> <<>>]
    ELSE [err |-> "", rows |-> SubSeq(e.tbl, 1, count)]

ThingOf(t) ==
    [X |-> t.X, Y |-> t.Y, AngleDegrees |-> t.Angle, Type |-> t.Type,
     Skill1and2 |-> BitSet(t.Options, 1), Skill3 |-> BitSet(t.Options, 2),
     Skill4and5 |-> BitSet(t.Options, 4), Ambush |-> BitSet(t.Options, 8),
     MultiplayerOnly |-> BitSet(t.Options, 16)]

\* A pointer to an element of a table of the level is the 0-based index of
\* the element; NilIndex is the nil pointer.
NilIndex == -1
ZeroVertex == [X |-> 0, Y |-> 0]
ZeroBox == [Top |-> 0, Bottom |-> 0, Left |-> 0, Right |-> 0]

\* A BSPMember: a *Node or a *SubSector, or the nil interface
NilMember == [kind |-> "nil", num |-> NilIndex]

LineOf(l) ==
    [V1Num |-> l.VertexStart, V2Num |-> l.VertexEnd,
     BlockPlayerAndMonsters |-> BitSet(l.Flags, 1),
     BlockMonsters |-> BitSet(l.Flags, 2),
     TwoSided |-> BitSet(l.Flags, 4),
     UpperTextureUnpegged |-> BitSet(l.Flags, 8),
     LowerTextureUnpegged |-> BitSet(l.Flags, 16),
     Secret |-> BitSet(l.Flags, 32),
     BlocksSound |-> BitSet(l.Flags, 64),
     NeverMap |-> BitSet(l.Flags, 128),
     AlwaysMap |-> BitSet(l.Flags, 256),
     Type |-> l.Type, SectorTagNum |-> l.SectorTag,
     SideRNum |-> l.SideR, SideLNum |-> l.SideL,
     \* the references, zero-valued until setReferences
     V1 |-> ZeroVertex, V2 |-> ZeroVertex, DX |-> 0, DY |-> 0,
     TaggedSectors |-> <<>>, SideR |-> NilIndex, SideL |-> NilIndex,
     BoundingBox |-> ZeroBox, SlopeType |-> "Horizontal",
     FrontSector |-> NilIndex, BackSector |-> NilIndex]

\* the texture references of a side are the Index of the texture, or -1 (nil)
TextureRef(textures, name) == IF Has(textures, name) THEN textures[name] ELSE -1

SideOf(s, textures) ==
    [XOffset |-> s.XOffset, YOffset |-> s.YOffset,
     UpperTextureName |-> s.UpperTexture,
     MiddleTextureName |-> s.MiddleTexture,
     LowerTextureName |-> s.LowerTexture,
     SectorNum |-> s.SectorNum,
     UpperTexture |-> TextureRef(textures, s.UpperTexture),
     MiddleTexture |-> TextureRef(textures, s.MiddleTexture),
     LowerTexture |-> TextureRef(textures, s.LowerTexture),
     Sector |-> NilIndex]

VertexOf(v) == [X |-> v.X, Y |-> v.Y]

\* Angle is kept in binary angle units (bamToRadians is a float scaling)
LineSegmentOf(s) ==
    [V1Num |-> s.V1, V2Num |-> s.V2, AngleBAM |-> s.Angle, LineNum |-> s.LineNum,
     IsSideL |-> s.Direction = 1, Offset |-> s.Offset,
     V1 |-> ZeroVertex, V2 |-> ZeroVertex, Line |-> NilIndex, Side |-> NilIndex,
     FrontSector |-> NilIndex, BackSector |-> NilIndex]

SubSectorOf(s) ==
    [numLineSegments |-> s.NumSegments, StartLineSegment |-> s.StartLineSegment,
     LineSegments |-> <<>>, Sector |-> NilIndex]

NodeOf(n) ==
    [X |-> n.X, Y |-> n.Y, DX |-> n.DX, DY |-> n.DY,
     BBoxR |-> n.BBoxR, BBoxL |-> n.BBoxL,
     ChildNumR |-> n.ChildNumR, ChildNumL |-> n.ChildNumL,
     ChildR |-> NilMember, ChildL |-> NilMember]

\* cloneSectorUserData: only a struct value is cloned
CloneFails(sectorUser) == sectorUser.kind # "struct"

\* cloneSectorUserData: [err, value].  reflect.New(type).Elem() is a new
\* struct and cloneVal.Set(srcVal) assigns the fields of src to it: a plain
\* field is copied, a reference-typed field holds the same reference.
cloneSectorUserData(src) ==
    IF CloneFails(src)
    THEN [err |-> "source is not a struct", value |-> [kind |-> "nil", n |-> 0, ref |-> NilRef]]
    ELSE [err |-> "", value |-> [kind |-> src.kind, n |-> src.n, ref |-> src.ref]]

SectorOf(s, i, flats, sectorUser) ==
    [Index |-> i, FloorHeight |-> s.FloorHeight, CeilingHeight |-> s.CeilingHeight,
     FloorTextureName |-> s.FloorTexture, CeilingTextureName |-> s.CeilingTexture,
     LightLevel |-> s.LightLevel, Type |-> s.Type, TagNum |-> s.TagNum,
     FloorTexture |-> TextureRef(flats, s.FloorTexture),
     CeilingTexture |-> TextureRef(flats, s.CeilingTexture),
     \* zero-valued until setReferences
     Lines |-> <<>>,
     SoundOrigin |-> [X |-> [hi |-> 0, lo |-> 0], Y |-> [hi |-> 0, lo |-> 0],
                      Z |-> [hi |-> 0, lo |-> 0]],
     BlockBox |-> [Top |-> [hi |-> 0, lo |-> 0], Bottom |-> [hi |-> 0, lo |-> 0],
                   Left |-> [hi |-> 0, lo |-> 0], Right |-> [hi |-> 0, lo |-> 0]],
     User |-> sectorUser]

\* readLump: seek, make, Read.  The error, "" when the lump was read whole.
readLump(e, lumpInfo) ==
    IF seek(lumpInfo.Filepos) # "" THEN seek(lumpInfo.Filepos)
    ELSE IF lumpInfo.Size < 0 THEN Panic                \* make: negative len
    ELSE FileReadErr(lumpInfo.Size, e.avail)

\* int(math.Sqrt(float64(n))) for n >= 0
RECURSIVE ISqrtFrom(_, _)
ISqrtFrom(n, r) == IF (r + 1) * (r + 1) > n THEN r ELSE ISqrtFrom(n, r + 1)

ISqrt(n) == ISqrtFrom(n, 0)

\* readReject: [err, reject]
readReject(e, lumpInfo) ==
    IF readLump(e, lumpInfo) # "" THEN [err |-> readLump(e, lumpInfo), reject |-> <<>>]
    ELSE
    LET numSectors == ISqrt(8 * lumpInfo.Size) IN
    [err |-> "",
     reject |-> [s1 \in 1..numSectors |-> [s2 \in 1..numSectors |->
                   LET cell == (s1 - 1) * numSectors + (s2 - 1)
                       i    == cell \div 8
                       j    == cell % 8
                   IN  (e.data[i + 1] * (2 ^ j)) % 256 > 0]]]   \* lump[i] << j

\* The bytes of the lump of directory entry e as readLump returns them: the
\* bytes of e.data, with e.zeros.n bytes 0 after the first e.zeros.at of them
LumpLen(e) == Len(e.data) + e.zeros.n

\* lump[p], p 0-based
LumpByte(e, p) ==
    IF p < e.zeros.at THEN e.data[p + 1]
    ELSE IF p < e.zeros.at + e.zeros.n THEN 0
    ELSE e.data[p + 1 - e.zeros.n]

\* the uint16 and the int16 at 0-based byte position p of the lump
LumpWord(e, p) == LumpByte(e, p) + 256 * LumpByte(e, p + 1)
LumpInt16(e, p) == WrapInt16(LumpWord(e, p))

\* The inner loop of readBlockmap over one block list, the reader standing at
\* 0-based byte position pos of the lump: [err, lineNums]
RECURSIVE readBlockList(_, _, _)
readBlockList(e, pos, lineNums) ==
    IF ReadErr(LumpLen(e) - pos, 2) # ""
    THEN [err |-> ReadErr(LumpLen(e) - pos, 2), lineNums |-> lineNums]
    ELSE IF LumpWord(e, pos) = 65535 THEN [err |-> "", lineNums |-> lineNums]
    ELSE readBlockList(e, pos + 2,
             IF LumpWord(e, pos) # 0 THEN Append(lineNums, LumpWord(e, pos))
             ELSE lineNums)

\* The loop of readBlockmap over the offsets from 1-based position k on:
\* [err, blocks]
RECURSIVE readBlocks(_, _, _, _)
readBlocks(e, offsets, k, blocks) ==
    IF k > Len(offsets) THEN [err |-> "", blocks |-> blocks]
    ELSE
    LET at == WrapInt16(2 * offsets[k]) IN              \* 2*o in int16
    IF at < 0 \/ at > LumpLen(e) THEN [err |-> Panic, blocks |-> blocks]
    ELSE LET b == readBlockList(e, at, <<>>) IN
         IF b.err # "" THEN [err |-> b.err, blocks |-> blocks]
         ELSE readBlocks(e, offsets, k + 1,
                         Append(blocks, [LineNums |-> b.lineNums, Lines |-> <<>>]))

NoBlockMap ==
    [OriginX |-> 0, OriginY |-> 0, NumColumns |-> 0, NumRows |-> 0, Blocks |-> <<>>]

\* readBlockmap: [err, blockMap]
readBlockmap(e, lumpInfo) ==
    IF readLump(e, lumpInfo) # ""
    THEN [err |-> readLump(e, lumpInfo), blockMap |-> NoBlockMap]
    ELSE IF ReadErr(LumpLen(e), BlockMapHeaderSize) # ""
    THEN [err |-> ReadErr(LumpLen(e), BlockMapHeaderSize), blockMap |-> NoBlockMap]
    ELSE
    LET columns == LumpInt16(e, 4)
        rows    == LumpInt16(e, 6)
        count   == WrapInt16(columns * rows)            \* header.Columns*header.Rows
    IN
    IF count < 0 THEN [err |-> Panic, blockMap |-> NoBlockMap]
    ELSE IF ReadErr(LumpLen(e) - BlockMapHeaderSize, 2 * count) # ""
    THEN [err |-> ReadErr(LumpLen(e) - BlockMapHeaderSize, 2 * count),
          blockMap |-> NoBlockMap]
    ELSE
    LET offsets == [k \in 1..count |->
                      LumpInt16(e, BlockMapHeaderSize + 2 * (k - 1))]
        b == readBlocks(e, offsets, 1, <<>>)
    IN
    IF b.err # "" THEN [err |-> b.err, blockMap |-> NoBlockMap]
    ELSE [err |-> "",
          blockMap |-> [OriginX |-> LumpInt16(e, 0), OriginY |-> LumpInt16(e, 2),
                        NumColumns |-> columns, NumRows |-> rows,
                        Blocks |-> b.blocks]]

NoLevel ==
    [Things |-> <<>>, Lines |-> <<>>, Sides |-> <<>>, Vertexes |-> <<>>,
     LineSegments |-> <<>>, SubSectors |-> <<>>, Nodes |-> <<>>, Sectors |-> <<>>,
     Reject |-> <<>>, BlockMap |-> NoBlockMap, RootNode |-> NilIndex]

InRange(i, seq) == i >= 0 /\ i < Len(seq)

\* setReferences faults (an index out of range) on the tables of level l
LinkFaults(l) ==
    \/ \E i \in 1..Len(l.Sides) : ~InRange(l.Sides[i].SectorNum, l.Sectors)
    \/ \E i \in 1..Len(l.Lines) :
          LET li == l.Lines[i] IN
          \/ ~InRange(li.V1Num, l.Vertexes)
          \/ ~InRange(li.V2Num, l.Vertexes)
          \/ li.SideRNum >= Len(l.Sides)
          \/ li.SideLNum >= Len(l.Sides)
    \/ \E i \in 1..Len(l.LineSegments) :
          LET s == l.LineSegments[i] IN
          \/ ~InRange(s.V1Num, l.Vertexes)
          \/ ~InRange(s.V2Num, l.Vertexes)
          \/ ~InRange(s.LineNum, l.Lines)
          \/ /\ InRange(s.LineNum, l.Lines)
             /\ LET li == l.Lines[s.LineNum + 1] IN
                \/ ~InRange(IF s.IsSideL THEN li.SideLNum ELSE li.SideRNum, l.Sides)
                \/ /\ li.TwoSided
                   /\ ~InRange(IF s.IsSideL THEN li.SideRNum ELSE li.SideLNum,
                               l.Sides)
    \/ \E i \in 1..Len(l.SubSectors) :
          LET s == l.SubSectors[i] IN
          \/ s.numLineSegments <= 0                     \* s.LineSegments[0]
          \/ \E j \in s.StartLineSegment..(s.StartLineSegment + s.numLineSegments - 1) :
                ~InRange(j, l.LineSegments)
    \/ Len(l.Nodes) = 0                                 \* l.Nodes[len(l.Nodes)-1]
    \/ \E i \in 1..Len(l.Nodes) : \E c \in {l.Nodes[i].ChildNumR, l.Nodes[i].ChildNumL} :
          IF c < 0 THEN ~InRange(c % 32768, l.SubSectors)   \* c & math.MaxInt16
          ELSE ~InRange(c, l.Nodes)
    \/ \E i \in 1..Len(l.BlockMap.Blocks) :
          \E j \in 1..Len(l.BlockMap.Blocks[i].LineNums) :
             ~InRange(l.BlockMap.Blocks[i].LineNums[j], l.Lines)

Max(a, b) == IF a >= b THEN a ELSE b

\* The slope type of a line of the given DX and DY: (DY / DX) > 0 in float64
SlopeTypeOf(dx, dy) ==
    IF dx = 0 THEN "Vertical"
    ELSE IF dy = 0 THEN "Horizontal"
    ELSE IF (dx > 0) = (dy > 0) THEN "Positive"
    ELSE "Negative"

\* The four assignments to li.BoundingBox, in order: Left is assigned twice,
\* the second time from the Y coordinates, and Top is not assigned.
LineBoundingBox(v1, v2) ==
    [Top    |-> 0,
     Right  |-> Max(v1.X, v2.X),
     Bottom |-> Min(v1.Y, v2.Y),
     Left   |-> Max(v1.Y, v2.Y)]

\* for j := range l.Sectors: the sectors whose tag is the line's, in order
RECURSIVE TaggedSectorsFrom(_, _, _)
TaggedSectorsFrom(sectors, tag, j) ==
    IF j > Len(sectors) THEN <<>>
    ELSE (IF sectors[j].TagNum = tag THEN <<j - 1>> ELSE <<>>)
             \o TaggedSectorsFrom(sectors, tag, j + 1)

\* The body of the loop over l.Sides
LinkSide(s) == [s EXCEPT !.Sector = s.SectorNum]

\* The body of the loop over l.Lines, on the linked sides
LinkLine(l, sides, li) ==
    [li EXCEPT
        !.V1 = l.Vertexes[li.V1Num + 1],
        !.V2 = l.Vertexes[li.V2Num + 1],
        !.DX = l.Vertexes[li.V2Num + 1].X - l.Vertexes[li.V1Num + 1].X,
        !.DY = l.Vertexes[li.V2Num + 1].Y - l.Vertexes[li.V1Num + 1].Y,
        !.SideR = IF li.SideRNum >= 0 THEN li.SideRNum ELSE NilIndex,
        !.FrontSector = IF li.SideRNum >= 0 THEN sides[li.SideRNum + 1].Sector
                        ELSE NilIndex,
        !.SideL = IF li.SideLNum >= 0 THEN li.SideLNum ELSE NilIndex,
        !.BackSector = IF li.SideLNum >= 0 THEN sides[li.SideLNum + 1].Sector
                       ELSE NilIndex,
        !.TaggedSectors = TaggedSectorsFrom(l.Sectors, li.SectorTagNum, 1),
        !.SlopeType =
            SlopeTypeOf(l.Vertexes[li.V2Num + 1].X - l.Vertexes[li.V1Num + 1].X,
                        l.Vertexes[li.V2Num + 1].Y - l.Vertexes[li.V1Num + 1].Y),
        !.BoundingBox = LineBoundingBox(l.Vertexes[li.V1Num + 1],
                                        l.Vertexes[li.V2Num + 1])]

\* The side a segment lies on and the side opposite to it, as indices
SegmentSideNum(line, s) == IF s.IsSideL THEN line.SideLNum ELSE line.SideRNum
OppositeSideNum(line, s) == IF s.IsSideL THEN line.SideRNum ELSE line.SideLNum

\* The body of the loop over l.LineSegments, on the linked sides and lines
LinkLineSegment(l, sides, lines, s) ==
    [s EXCEPT
        !.V1 = l.Vertexes[s.V1Num + 1],
        !.V2 = l.Vertexes[s.V2Num + 1],
        !.Line = s.LineNum,
        !.Side = SegmentSideNum(lines[s.LineNum + 1], s),
        !.FrontSector = sides[SegmentSideNum(lines[s.LineNum + 1], s) + 1].Sector,
        !.BackSector =
            IF lines[s.LineNum + 1].TwoSided
            THEN sides[OppositeSideNum(lines[s.LineNum + 1], s) + 1].Sector
            ELSE NilIndex]

\* The body of the loop over l.SubSectors, on the linked sides and segments:
\* the segments are appended by value
LinkSubSector(sides, segs, s) ==
    [s EXCEPT
        !.LineSegments = SubSeq(segs, s.StartLineSegment + 1,
                                s.StartLineSegment + s.numLineSegments),
        !.Sector = sides[segs[s.StartLineSegment + 1].Side + 1].Sector]

\* The typed child of a node for the child number c
ChildOf(c) ==
    IF c < 0 THEN [kind |-> "SubSector", num |-> c % 32768]     \* c & math.MaxInt16
    ELSE [kind |-> "Node", num |-> c]

\* The body of the loop over l.Nodes
LinkNode(n) ==
    [n EXCEPT !.ChildR = ChildOf(n.ChildNumR), !.ChildL = ChildOf(n.ChildNumL)]

(***************************************************************************)
(* The float64 and int values of the sector loop of setReferences.  The    *)
(* bounding box starts at float64(math.MaxInt) = 2^63 and                  *)
(* float64(math.MinInt) = -2^63, so a value is kept as [hi, lo], standing  *)
(* for hi * 2^62 + lo / 2 with lo far below 2^62: the coordinates of a     *)
(* level have hi = 0, and a float64 of hi # 0 has lo rounded to the        *)
(* spacing of the float64 values around it.                                *)
(***************************************************************************)
Float(n) == [hi |-> 0, lo |-> 2 * n]

MaxIntFloat == [hi |-> 2, lo |-> 0]         \* float64(math.MaxInt) = 2^63
MinIntFloat == [hi |-> -2, lo |-> 0]        \* float64(math.MinInt) = -2^63
MaxInt64 == [hi |-> 2, lo |-> -2]           \* 2^63 - 1
MinInt64 == [hi |-> -2, lo |-> 0]           \* -2^63

NumLess(a, b) == a.hi < b.hi \/ (a.hi = b.hi /\ a.lo < b.lo)

\* the builtin min and max
NumMin(a, b) == IF NumLess(b, a) THEN b ELSE a
NumMax(a, b) == IF NumLess(a, b) THEN b ELSE a

\* n rounded to the nearest multiple of q, a tie to the even multiple
RoundTies(n, q) ==
    IF 2 * (n % q) < q THEN (n \div q) * q
    ELSE IF 2 * (n % q) > q THEN ((n \div q) + 1) * q
    ELSE IF (n \div q) % 2 = 0 THEN (n \div q) * q
    ELSE ((n \div q) + 1) * q

\* The spacing of the float64 values around hi * 2^62 + lo / 2, hi # 0, in
\* halves: 2^10 between 2^62 and 2^63, 2^11 above 2^63, 2^9 below 2^62
Spacing(a) ==
    LET above == (a.hi > 0) = (a.lo >= 0) IN
    IF a.hi \in {-2, 2} THEN (IF above THEN 4096 ELSE 2048)
    ELSE (IF above THEN 2048 ELSE 1024)

\* The float64 nearest to the exact value a
FRound(a) ==
    IF a.hi = 0 THEN a
    ELSE [hi |-> a.hi, lo |-> RoundTies(a.lo, Spacing(a))]

\* a + b, a - b and a / 2 in float64
FAdd(a, b) == FRound([hi |-> a.hi + b.hi, lo |-> a.lo + b.lo])
FSub(a, b) == FRound([hi |-> a.hi - b.hi, lo |-> a.lo - b.lo])
FHalf(a) == [hi |-> Quot(a.hi, 2), lo |-> Quot(a.lo, 2)]

\* The results of int(f) for a float64 f of 2^63 or more, which int cannot
\* represent: the value is implementation-dependent, the minimum int on
\* amd64 and the maximum int on arm64
FloatToIntOverflows == {MinInt64, MaxInt64}

\* int(f): the fraction is dropped; a value below -2^63 gives the minimum int
\* on either build, a value of 2^63 or more gives ov
FloatToInt(a, ov) ==
    IF a.hi = 0 THEN [hi |-> 0, lo |-> 2 * Quot(a.lo, 2)]
    ELSE IF a.hi < 0 THEN (IF a.lo < 0 THEN MinInt64 ELSE a)
    ELSE (IF a.lo >= 0 THEN ov ELSE a)

\* MaxRadius is for precalculated sector block boxes
MaxRadius == 32

newBBox ==
    [Left |-> MaxIntFloat, Right |-> MinIntFloat, Bottom |-> MaxIntFloat,
     Top |-> MinIntFloat]

\* BoundBox.add: Top takes the minimum, as Bottom does
add(b, v) ==
    [Left   |-> NumMin(b.Left, Float(v.X)),
     Right  |-> NumMax(b.Right, Float(v.X)),
     Bottom |-> NumMin(b.Bottom, Float(v.Y)),
     Top    |-> NumMin(b.Top, Float(v.Y))]

\* s is the sector of index i: l.FrontSector == s || l.BackSector == s
LineOfSector(li, i) == li.FrontSector = i \/ li.BackSector = i

\* The loop over l.Lines for the sector of index i, from line j (1-based) on:
\* the references appended to s.Lines, and the bounding box
RECURSIVE SectorLinesFrom(_, _, _)
SectorLinesFrom(lines, i, j) ==
    IF j > Len(lines) THEN <<>>
    ELSE (IF LineOfSector(lines[j], i) THEN <<j - 1>> ELSE <<>>)
            \o SectorLinesFrom(lines, i, j + 1)

RECURSIVE SectorBBoxFrom(_, _, _, _)
SectorBBoxFrom(lines, i, j, bbox) ==
    IF j > Len(lines) THEN bbox
    ELSE SectorBBoxFrom(lines, i, j + 1,
             IF LineOfSector(lines[j], i)
             THEN add(add(bbox, lines[j].V1), lines[j].V2)
             ELSE bbox)

\* The four assignments to s.BlockBox, in order: Right is assigned twice, the
\* second time from the left edge, and Left is not assigned
SectorBlockBox(bbox, bm, ov) ==
    [Top    |-> NumMin(FloatToInt(FAdd(FSub(bbox.Top, Float(bm.OriginY)),
                                       Float(MaxRadius)), ov),
                       Float(bm.NumRows - 1)),
     Bottom |-> NumMax(FloatToInt(FSub(FSub(bbox.Bottom, Float(bm.OriginY)),
                                       Float(MaxRadius)), ov),
                       Float(0)),
     Left   |-> Float(0),
     Right  |-> NumMax(FloatToInt(FSub(FSub(bbox.Left, Float(bm.OriginX)),
                                       Float(MaxRadius)), ov),
                       Float(0))]

\* The body of the loop over l.Sectors on the linked lines, bbox the
\* bounding box of the lines of the sector
LinkSectorBox(l, lines, s, bbox, ov) ==
    [s EXCEPT
        !.Lines = SectorLinesFrom(lines, s.Index, 1),
        !.SoundOrigin = [X |-> FHalf(FAdd(bbox.Right, bbox.Left)),
                         Y |-> FHalf(FAdd(bbox.Top, bbox.Bottom)),
                         Z |-> Float(0)],
        !.BlockBox = SectorBlockBox(bbox, l.BlockMap, ov)]

\* The body of the loop over l.BlockMap.Blocks: &l.Lines[b.LineNums[j]] is
\* appended for every j
LinkBlock(b) == [b EXCEPT !.Lines = b.LineNums]

\* setReferences on the tables of a level that does not fault, in stages:
\* the subsectors on the linked segments, the segments on the linked lines,
\* the lines on the linked sides
LinkedLevel(l, sides, lines, segs, ov) ==
    [l EXCEPT
        !.Sides = sides,
        !.Lines = lines,
        !.LineSegments = segs,
        !.SubSectors = [i \in 1..Len(l.SubSectors) |->
                           LinkSubSector(sides, segs, l.SubSectors[i])],
        !.Nodes = [i \in 1..Len(l.Nodes) |-> LinkNode(l.Nodes[i])],
        !.RootNode = Len(l.Nodes) - 1,
        !.Sectors = [i \in 1..Len(l.Sectors) |->
                        LinkSectorBox(l, lines, l.Sectors[i],
                                      SectorBBoxFrom(lines, i - 1, 1, newBBox), ov)],
        !.BlockMap.Blocks = [i \in 1..Len(l.BlockMap.Blocks) |->
                                LinkBlock(l.BlockMap.Blocks[i])]]

LinkSegments(l, sides, lines, ov) ==
    LinkedLevel(l, sides, lines,
                [i \in 1..Len(l.LineSegments) |->
                    LinkLineSegment(l, sides, lines, l.LineSegments[i])], ov)

LinkLines(l, sides, ov) ==
    LinkSegments(l, sides,
                 [i \in 1..Len(l.Lines) |-> LinkLine(l, sides, l.Lines[i])], ov)

\* ov is what int(f) gives in this build for a float64 too large for int
setReferences(l, ov) ==
    LinkLines(l, [i \in 1..Len(l.Sides) |-> LinkSide(l.Sides[i])], ov)

\* The lump names the switch of ReadLevel has a case for
LevelLumpNames ==
    {"THINGS", "SIDEDEFS", "LINEDEFS", "VERTEXES", "SEGS", "SSECTORS", "NODES",
     "SECTORS", "REJECT", "BLOCKMAP"}

\* A table reader's result t turned into the level with its table set:
\* [err, level, handled]
TableRead(t, lv) ==
    [err |-> t.err, level |-> IF t.err = "" THEN lv ELSE NoLevel, handled |-> TRUE]

\* The switch of ReadLevel on the name of the lump at directory index i:
\* [err, level, handled]
ReadLevelLump(f, wad, level, i, sectorUser) ==
    LET li   == wad.lumpInfos[i + 1]
        e    == f.dir[i + 1]
        name == li.Name
    IN
    IF name = "THINGS"
    THEN LET t == ReadTable(e, li, ThingSize) IN
         TableRead(t, [level EXCEPT !.Things =
                          [k \in 1..Len(t.rows) |-> ThingOf(t.rows[k])]])
    ELSE IF name = "SIDEDEFS"
    THEN LET t == ReadTable(e, li, SideSize) IN
         TableRead(t, [level EXCEPT !.Sides =
                          [k \in 1..Len(t.rows) |-> SideOf(t.rows[k], wad.Textures)]])
    ELSE IF name = "LINEDEFS"
    THEN LET t == ReadTable(e, li, LineSize) IN
         TableRead(t, [level EXCEPT !.Lines =
                          [k \in 1..Len(t.rows) |-> LineOf(t.rows[k])]])
    ELSE IF name = "VERTEXES"
    THEN LET t == ReadTable(e, li, VertexSize) IN
         TableRead(t, [level EXCEPT !.Vertexes =
                          [k \in 1..Len(t.rows) |-> VertexOf(t.rows[k])]])
    ELSE IF name = "SEGS"
    THEN LET t == ReadTable(e, li, SegmentSize) IN
         TableRead(t, [level EXCEPT !.LineSegments =
                          [k \in 1..Len(t.rows) |-> LineSegmentOf(t.rows[k])]])
    ELSE IF name = "SSECTORS"
    THEN LET t == ReadTable(e, li, SubSectorSize) IN
         TableRead(t, [level EXCEPT !.SubSectors =
                          [k \in 1..Len(t.rows) |-> SubSectorOf(t.rows[k])]])
    ELSE IF name = "NODES"
    THEN LET t == ReadTable(e, li, NodeSize) IN
         TableRead(t, [level EXCEPT !.Nodes =
                          [k \in 1..Len(t.rows) |-> NodeOf(t.rows[k])]])
    ELSE IF name = "SECTORS"
    THEN LET t == ReadTable(e, li, SectorSize) IN
         IF t.err = "" /\ Len(t.rows) > 0 /\ cloneSectorUserData(sectorUser).err # ""
         THEN [err |-> "cannot clone passed sectorUserData", level |-> NoLevel,
               handled |-> TRUE]
         ELSE TableRead(t, [level EXCEPT !.Sectors =
                               [k \in 1..Len(t.rows) |->
                                   SectorOf(t.rows[k], k - 1, wad.Flats,
                                            cloneSectorUserData(sectorUser).value)]])
    ELSE IF name = "REJECT"
    THEN LET r == readReject(e, li) IN
         [err |-> r.err, level |-> [level EXCEPT !.Reject = r.reject],
          handled |-> TRUE]
    ELSE IF name = "BLOCKMAP"
    THEN LET r == readBlockmap(e, li) IN
         [err |-> r.err, level |-> [level EXCEPT !.BlockMap = r.blockMap],
          handled |-> TRUE]
    ELSE [err |-> "", level |-> level, handled |-> FALSE]  \* Unhandled lump

\* unsafe.Sizeof of the binary record of a level table lump
RecordSize(name) ==
    CASE name = "THINGS" -> ThingSize
      [] name = "SIDEDEFS" -> SideSize
      [] name = "LINEDEFS" -> LineSize
      [] name = "VERTEXES" -> VertexSize
      [] name = "SEGS" -> SegmentSize
      [] name = "SSECTORS" -> SubSectorSize
      [] name = "NODES" -> NodeSize
      [] name = "SECTORS" -> SectorSize

\* The file operations of the switch of ReadLevel on the lump at directory
\* index i, the file at fp.pos: a table reader reads its records where the
\* file is (binary.Read of an empty slice reads nothing), readReject and
\* readBlockmap go through readLump
LevelLumpFile(f, wad, i, fp) ==
    LET li == wad.lumpInfos[i + 1]
        e  == f.dir[i + 1]
    IN
    IF li.Name \in {"REJECT", "BLOCKMAP"}
    THEN LET s == Seeked(fp, i, li.Filepos) IN
         IF seekFrom(fp.pos, li.Filepos).err # "" \/ li.Size < 0 THEN s
         ELSE ReadFrom(s, i, li.Size, BytesFrom(s.pos, li.Filepos, e.avail))
    ELSE IF li.Name \notin LevelLumpNames THEN fp
    ELSE
    LET n == Quot(li.Size, RecordSize(li.Name)) * RecordSize(li.Name) IN
    IF n <= 0 THEN fp
    ELSE ReadFrom(fp, i, n, BytesFrom(fp.pos, li.Filepos, e.avail))

\* The loop of ReadLevel from directory index i to last: [err, level, decoded,
\* file], decoded the directory indices handed to a lump reader, file the
\* offset of the file and the file operations made.
RECURSIVE ReadLevelLumps(_, _, _, _, _, _, _, _)

\* The loop body for directory index i after the switch returned r
ReadLevelLumpsNext(f, wad, level, i, last, sectorUser, decoded, fp, r) ==
    IF r.err # ""
    THEN [err |-> r.err, level |-> level, decoded |-> decoded, file |-> fp]
    ELSE ReadLevelLumps(f, wad, r.level, i + 1, last, sectorUser, decoded, fp)

ReadLevelLumps(f, wad, level, i, last, sectorUser, decoded, fp) ==
    IF i > last
    THEN [err |-> "", level |-> level, decoded |-> decoded, file |-> fp]
    ELSE IF ~InRange(i, wad.lumpInfos)                          \* w.lumpInfos[i]
    THEN [err |-> Panic, level |-> level, decoded |-> decoded, file |-> fp]
    ELSE IF seek(wad.lumpInfos[i + 1].Filepos) # ""
    THEN [err |-> seek(wad.lumpInfos[i + 1].Filepos), level |-> level,
          decoded |-> decoded,
          file |-> Seeked(fp, i, wad.lumpInfos[i + 1].Filepos)]
    ELSE ReadLevelLumpsNext(f, wad, level, i, last, sectorUser,
             IF wad.lumpInfos[i + 1].Name \in LevelLumpNames
             THEN Append(decoded, i) ELSE decoded,
             LevelLumpFile(f, wad, i,
                           Seeked(fp, i, wad.lumpInfos[i + 1].Filepos)),
             ReadLevelLump(f, wad, level, i, sectorUser))

\* levelIdx := w.levels[name]: the zero value for a name that is no key
LevelIdx(levels, name) == IF Has(levels, name) THEN levels[name] ELSE 0

\* ReadLevel: [err, level, decoded, stage, file]; level is NoLevel when nothing is
\* returned, stage tells where the call ended: in the loop over the lumps, in
\* setReferences, or at its return statement
ReadLevelLinked(r, ov) ==
    IF r.err # ""
    THEN [err |-> r.err, level |-> NoLevel, decoded |-> r.decoded,
          stage |-> "lumps", file |-> r.file]
    ELSE IF LinkFaults(r.level)
    THEN [err |-> Panic, level |-> NoLevel, decoded |-> r.decoded,
          stage |-> "setReferences", file |-> r.file]
    ELSE [err |-> "", level |-> setReferences(r.level, ov), decoded |-> r.decoded,
          stage |-> "return", file |-> r.file]

\* The loop of ReadLevel over the ten lumps after the level's name lump; the
\* call ends with ReadLevelLinked on its result
ReadLevelOp(f, wad, name, sectorUser) ==
    ReadLevelLumps(f, wad, NoLevel, LevelIdx(wad.levels, name) + 1,
                   LevelIdx(wad.levels, name) + LevelLumps, sectorUser, <<>>,
                   [pos |-> wad.pos, ops |-> <<>>])

(***************************************************************************)
(* PrintTree: the recursion over the children of a node.                   *)
(***************************************************************************)
\* printRecursive(member, prefix) returns: a subsector is printed and the
\* call returns; a node is printed and the call returns when the calls on
\* its two children have returned.  depth is the number of calls on the
\* stack; a call chain longer than the node list holds a node twice and
\* never returns.
RECURSIVE printRecursive(_, _, _)
printRecursive(nodes, member, depth) ==
    IF member.kind # "Node" THEN TRUE
    ELSE IF depth > Len(nodes) THEN FALSE
    ELSE /\ printRecursive(nodes, nodes[member.num + 1].ChildR, depth + 1)
         /\ printRecursive(nodes, nodes[member.num + 1].ChildL, depth + 1)

\* PrintTree(n) returns, for n the node of index root of nodes
PrintTree(nodes, root) ==
    printRecursive(nodes, [kind |-> "Node", num |-> root], 1)

(***************************************************************************)
(* LevelNames: the keys of w.levels, sorted by sort.Strings (byte order).  *)
(***************************************************************************)
\* a < b for two Go strings
RECURSIVE StringLess(_, _)
StringLess(a, b) ==
    IF Len(b) = 0 THEN FALSE
    ELSE IF Len(a) = 0 THEN TRUE
    ELSE IF ByteAt(a, 0) # ByteAt(b, 0) THEN ByteAt(a, 0) < ByteAt(b, 0)
    ELSE StringLess(SubSeq(a, 2, Len(a)), SubSeq(b, 2, Len(b)))

\* sort.Strings of the strings of the set S
RECURSIVE SortStrings(_)
SortStrings(S) ==
    IF S = {} THEN <<>>
    ELSE LET least == CHOOSE x \in S : \A y \in S : x = y \/ StringLess(x, y)
         IN  <<least>> \o SortStrings(S \ {least})

LevelNames(levels) == SortStrings(DOMAIN levels)

(***************************************************************************)
(* NewWAD: the archive value and the result of opening file f.             *)
(***************************************************************************)
TransparentIndexValue == 255    \* wad.TransparentIndex = 255

NoWAD ==
    [open |-> FALSE, lumpInfos |-> <<>>, lumpNums |-> <<>>, levels |-> <<>>,
     TransparentIndex |-> 0, patchNames |-> <<>>, Pictures |-> <<>>,
     PicturesNil |-> TRUE, Textures |-> <<>>, TexturesList |-> <<>>,
     Flats |-> <<>>, FlatsList |-> <<>>, Sprites |-> <<>>, Sounds |-> <<>>,
     pos |-> 0]

\* A magic test that lets patch archives through as well
BadMagicButPWAD(magic) == magic \notin {"IWAD", "PWAD"}

\* string(binHeader.Magic[:]) != "IWAD"
BadMagic(magic) == magic # "IWAD"

\* What a call returned: the operation and its argument, the error ("" is
\* nil), the picture reference (and whether it came from the cache lookup) or
\* the level returned, and for NewWAD the stage
\* it ended in and the number of directory entries it read, for ReadLevel the
\* directory indices it handed to a lump reader, for LevelNames the names;
\* ops are the operations GetPicture or ReadLevel made on the file.
Ret(op, arg, e) ==
    [op |-> op, arg |-> arg, err |-> e, ref |-> NilRef, hit |-> FALSE,
     stage |-> "",
     entriesRead |-> 0, decoded |-> <<>>, level |-> NoLevel, names |-> <<>>,
     ops |-> <<>>]

\* return nil, err  at the given stage of NewWAD
NewWADFail(stage, e, entriesRead) ==
    [wad |-> NoWAD, heap |-> <<>>,
     ret |-> [Ret("NewWAD", "", e) EXCEPT
                 !.stage = stage, !.entriesRead = entriesRead]]

\* NewWAD from the call of readMusic on (wad.go:663-670); the earlier results
\* are it (readInfoTables), pn (readPatchNames), tx (readTextures), fl
\* (readFlats), sp (readSprites), sn (readSounds), mu, the error of readMusic,
\* and end, the offset readMusic leaves the file on
NewWADMusic(it, pn, tx, fl, sp, sn, mu, end) ==
    IF mu # "" THEN NewWADFail("readMusic", mu, it.entriesRead)
    ELSE
    [wad |-> [open |-> TRUE, lumpInfos |-> it.lumpInfos, lumpNums |-> it.lumpNums,
              levels |-> it.levels, TransparentIndex |-> TransparentIndexValue,
              patchNames |-> pn.patchNames, Pictures |-> sp.Pictures,
              PicturesNil |-> sp.PicturesNil, Textures |-> tx.Textures,
              TexturesList |-> tx.TexturesList, Flats |-> fl.Flats,
              FlatsList |-> fl.FlatsList, Sprites |-> sp.Sprites,
              Sounds |-> sn.Sounds, pos |-> end],
     heap |-> sp.heap,
     ret |-> [Ret("NewWAD", "", "") EXCEPT
                 !.stage = "done", !.entriesRead = it.entriesRead]]

\* ... from the call of readSounds on (wad.go:656-661)
NewWADSounds(f, it, pn, tx, fl, sp, sn) ==
    IF sn.err # "" THEN NewWADFail("readSounds", sn.err, it.entriesRead)
    ELSE NewWADMusic(it, pn, tx, fl, sp, sn, readMusicLumps(f, it.lumpInfos, 1),
                     readMusicEnd(f, it.lumpInfos, 1, OffsetBeforeMusic))

\* ... from the call of readSprites on (wad.go:642-647)
NewWADSprites(f, it, pn, tx, fl, sp) ==
    IF sp.err # "" THEN NewWADFail("readSprites", sp.err, it.entriesRead)
    ELSE NewWADSounds(f, it, pn, tx, fl, sp,
                      readSoundLumps(f, it.lumpInfos, <<>>, 1))

\* ... from the call of readFlats on (wad.go:634-640); pp is the cache and the
\* allocations readPatchPics left
NewWADFlats(f, it, pn, pp, tx, fl) ==
    IF fl.err # "" THEN NewWADFail("readFlats", fl.err, it.entriesRead)
    ELSE NewWADSprites(f, it, pn, tx, fl,
                       readSprites(f, it.lumpNums, it.lumpInfos,
                                   TransparentIndexValue, pp.Pictures,
                                   pp.PicturesNil, pp.heap))

\* ... from the call of readTextures on (wad.go:625-632)
NewWADTextures(f, it, pn, pp, tx) ==
    IF tx.err # "" THEN NewWADFail("readTextures", tx.err, it.entriesRead)
    ELSE NewWADFlats(f, it, pn, pp, tx, readFlats(f, it.lumpNums, it.lumpInfos))

\* ... from the call of readPatchPics on (wad.go:619-623)
NewWADPatchPics(f, it, pn, pp) ==
    IF pp.err # "" THEN NewWADFail("readPatchPics", pp.err, it.entriesRead)
    ELSE NewWADTextures(f, it, pn, pp,
                        readTextures(f, it.lumpNums, it.lumpInfos, pn.patchNames,
                                     pp.Pictures, pp.heap))

\* ... from the call of readPatchNames on (wad.go:613-617)
NewWADPatchNames(f, it, pn) ==
    IF pn.err # "" THEN NewWADFail("readPatchNames", pn.err, it.entriesRead)
    ELSE NewWADPatchPics(f, it, pn,
                         readPatchPics(f, it.lumpNums, it.lumpInfos,
                                       TransparentIndexValue, <<>>, TRUE, <<>>,
                                       pn.patchNames))

\* ... from the check of readEndoom on (wad.go:594-597); e is its error
NewWADEndoom(f, it, e) ==
    IF e # "" THEN NewWADFail("readEndoom", e, it.entriesRead)
    ELSE NewWADPatchNames(f, it, readPatchNames(f, it.lumpNums, it.lumpInfos))

\* ... from the check of readColorMaps on (wad.go:587-590); e is its error
NewWADColorMaps(f, it, e) ==
    IF e # "" THEN NewWADFail("readColorMaps", e, it.entriesRead)
    ELSE NewWADEndoom(f, it, readFixed(f, it.lumpNums, it.lumpInfos, "ENDOOM",
                                       EndoomSize))

\* ... from the check of readPlaypal on (wad.go:579-583); e is its error
NewWADPlaypal(f, it, e) ==
    IF e # "" THEN NewWADFail("readPlaypal", e, it.entriesRead)
    ELSE NewWADColorMaps(f, it, readFixed(f, it.lumpNums, it.lumpInfos,
                                          "COLORMAP", ColorMapsSize))

\* ... from the check of readInfoTables on (wad.go:573-578)
NewWADTables(f, it) ==
    IF it.err # "" THEN NewWADFail("readInfoTables", it.err, it.entriesRead)
    ELSE NewWADPlaypal(f, it, readFixed(f, it.lumpNums, it.lumpInfos, "PLAYPAL",
                                        PlaypalSize))

\* NewWAD: [wad, heap, ret]
NewWADOp(f) ==
    IF ~f.openable THEN NewWADFail("open", "open: no such file", 0)
    ELSE IF ReadErr(f.headerBytes, HeaderSize) # ""
    THEN NewWADFail("header", ReadErr(f.headerBytes, HeaderSize), 0)
    ELSE IF BadMagic(f.Magic)
    THEN NewWADFail("magic", "bad magic: " \o f.Magic, 0)
    ELSE NewWADTables(f, readInfoTables(f))

(***************************************************************************)
(* Archive files the reader is run on.                                     *)
(*                                                                         *)
(* A picture lump is written from a description desc = [Width, Height,     *)
(* LeftOffset, TopOffset, Columns], Columns a list of columns, a column a  *)
(* list of posts [top, pix]: the 8-byte header, the table of Width uint32  *)
(* column offsets, then per column its posts (top delta, pixel count, a    *)
(* pad byte, the pixels, a pad byte) and the 0xFF end mark.                *)
(***************************************************************************)
MaxSectors == 2     \* most sectors of a level of the input files
MaxWidth == 2       \* widest picture / texture of the input files
MaxHeight == 3      \* tallest picture / texture of the input files

U16Bytes(v) ==
    LET u == IF v < 0 THEN v + 65536 ELSE v
    IN  <<u % 256, u \div 256>>

U32Bytes(v) ==
    <<v % 256, (v \div 256) % 256, (v \div 65536) % 256, v \div 16777216>>

PostBytes(post) == <<post.top, Len(post.pix), 0>> \o post.pix \o <<0>>

RECURSIVE ColumnBytes(_)
ColumnBytes(posts) ==
    IF Len(posts) = 0 THEN <<EndOfColumn>>
    ELSE PostBytes(Head(posts)) \o ColumnBytes(Tail(posts))

RECURSIVE ColumnsBytes(_)
ColumnsBytes(cols) ==
    IF Len(cols) = 0 THEN <<>>
    ELSE ColumnBytes(Head(cols)) \o ColumnsBytes(Tail(cols))

RECURSIVE OffsetTable(_, _)
OffsetTable(cols, at) ==
    IF Len(cols) = 0 THEN <<>>
    ELSE U32Bytes(at) \o OffsetTable(Tail(cols), at + Len(ColumnBytes(Head(cols))))

PictureBytes(desc) ==
    U16Bytes(desc.Width) \o U16Bytes(desc.Height)
        \o U16Bytes(desc.LeftOffset) \o U16Bytes(desc.TopOffset)
        \o OffsetTable(desc.Columns, PatchHeaderSize + 4 * Len(desc.Columns))
        \o ColumnsBytes(desc.Columns)

NoDesc == [Width |-> 0, Height |-> 0, LeftOffset |-> 0, TopOffset |-> 0,
           Columns |-> <<>>]

\* A directory entry with no content of interest: size bytes, all in the file.
Lump(name, size) ==
    [Name |-> name, Filepos |-> HeaderSize, Size |-> size, avail |-> size,
     data |-> <<>>, zeros |-> [at |-> 0, n |-> 0], hasDesc |-> FALSE,
     desc |-> NoDesc,
     pnames |-> <<>>, tex |-> <<>>,
     snd |-> [Format |-> 0, SampleRate |-> 0, Bytes |-> 0],
     mus |-> [InstrumentCount |-> 0], tbl |-> <<>>]

\* A picture lump holding the bytes of desc
PictureLump(name, desc) ==
    [Lump(name, Len(PictureBytes(desc))) EXCEPT
        !.data = PictureBytes(desc), !.hasDesc = TRUE, !.desc = desc]

\* A picture lump holding the given bytes (not written from a description)
RawLump(name, bytes) == [Lump(name, Len(bytes)) EXCEPT !.data = bytes]

Pic(width, height, left, top, cols) ==
    [Width |-> width, Height |-> height, LeftOffset |-> left, TopOffset |-> top,
     Columns |-> cols]

Post(top, pix) == [top |-> top, pix |-> pix]

\* The runs of pixels of the posts of the input pictures
PixelRuns == {<<>>, <<7>>, <<9, 255>>, <<1, 2, 3>>}

Posts == {Post(t, p) : t \in 0..MaxHeight, p \in PixelRuns}

FewPosts == {Post(0, <<7>>), Post(0, <<8, 6>>), Post(1, <<9, 255>>),
             Post(MaxHeight, <<5>>)}

\* Columns of zero, one or two posts
ColumnsOfPosts ==
    {<<>>} \cup {<<p>> : p \in Posts} \cup {<<p, q>> : p \in FewPosts, q \in FewPosts}

FewColumns == {<<>>, <<Post(0, <<7>>)>>, <<Post(1, <<8, 9>>)>>,
               <<Post(0, <<4>>), Post(2, <<6>>)>>}

RECURSIVE SeqsOf(_, _)
SeqsOf(S, n) ==
    IF n = 0 THEN {<<>>}
    ELSE {<<x>> \o t : x \in S, t \in SeqsOf(S, n - 1)}

\* The picture descriptions of the input files: one column with every choice
\* of posts, several columns with fewer choices, and offsets of either sign.
PictureDescs ==
    {Pic(1, h, 0, 0, <<c>>) : h \in 0..MaxHeight, c \in ColumnsOfPosts}
    \cup UNION {{Pic(n, h, 0, 0, cs) :
                    h \in {0, MaxHeight - 1}, cs \in SeqsOf(FewColumns, n)} :
                 n \in {0} \cup (2..MaxWidth)}
    \cup {Pic(1, 2, l, t, <<<<Post(0, <<7>>)>>>>) :
            l \in {-32768, -3, 0, 5}, t \in {-1, 0, 32767}}
    \cup {Pic(0, -1, 0, 0, <<>>)}

\* Picture lumps that are not well formed: a short header, a header only, a
\* negative width, a negative height, a column offset outside the lump, a
\* column without its end mark, a short offset table.
RawPictures ==
    {<<>>, <<1, 0, 1>>,
     <<1, 0, 1, 0, 0, 0, 0, 0>>,
     <<255, 255, 1, 0, 0, 0, 0, 0>>,
     <<1, 0, 255, 255, 0, 0, 0, 0, 12, 0, 0, 0, 255>>,
     <<1, 0, 1, 0, 0, 0, 0, 0, 99, 0, 0, 0, 255>>,
     <<1, 0, 1, 0, 0, 0, 0, 0, 255, 255, 255, 255, 255>>,
     <<1, 0, 2, 0, 0, 0, 0, 0, 12, 0, 0, 0, 0, 1, 0, 7, 0>>,
     <<2, 0, 1, 0, 0, 0, 0, 0, 16, 0, 0, 0, 16, 0>>}

\* The two patches of the input files and the other pictures
PatchP1 == Pic(2, 3, 0, 0, <<<<Post(0, <<11, 12, 13>>)>>, <<Post(0, <<21, 22, 23>>)>>>>)
PatchP2 == Pic(1, 1, 0, 0, <<<<Post(0, <<31>>)>>>>)
TitlePic == Pic(2, 2, 0, 0, <<<<Post(0, <<41>>)>>, <<Post(1, <<42>>)>>>>)
SpritePic == Pic(1, 2, -3, 5, <<<<Post(0, <<51, 52>>)>>>>)

BinPatch(x, y, idx) == [XOffset |-> x, YOffset |-> y, PatchNameIdx |-> idx]

BinTexture(name, width, height, patches) ==
    [TextureName |-> name, Masked |-> 0, Width |-> width, Height |-> height,
     NumPatches |-> Len(patches), patches |-> patches]

Wall1 == BinTexture("WALL1", 2, 3, <<BinPatch(0, 0, 0), BinPatch(1, 1, 1)>>)

TextureLump(name, texs) ==
    [Lump(name, 4 + 4 * Len(texs) + 32 * Len(texs)) EXCEPT !.tex = texs]

PNamesLump(names) == [Lump("PNAMES", 4 + 8 * Len(names)) EXCEPT !.pnames = names]

SoundLump(name, format, bytes) ==
    [Lump(name, SoundHeaderSize + 8) EXCEPT
        !.snd = [Format |-> format, SampleRate |-> 11025, Bytes |-> bytes]]

TableLump(name, recSize, rows) ==
    [Lump(name, recSize * Len(rows)) EXCEPT !.tbl = rows]

\* The bounding box of the nodes of the input files
BBox0 == [Top |-> 0, Bottom |-> 0, Left |-> 0, Right |-> 64]

\* The binary records of the level lumps
BinLine(v1, v2, flags, sideR, sideL) ==
    [VertexStart |-> v1, VertexEnd |-> v2, Flags |-> flags, Type |-> 0,
     SectorTag |-> 0, SideR |-> sideR, SideL |-> sideL]

BinSide(sector) ==
    [XOffset |-> 0, YOffset |-> 0, UpperTexture |-> "-", LowerTexture |-> "-",
     MiddleTexture |-> "WALL1", SectorNum |-> sector]

BinVertex(x, y) == [X |-> x, Y |-> y]

BinSeg(v1, v2, line, direction) ==
    [V1 |-> v1, V2 |-> v2, Angle |-> 0, LineNum |-> line, Direction |-> direction,
     Offset |-> 0]

BinSubSector(n, start) == [NumSegments |-> n, StartLineSegment |-> start]

BinNode(childR, childL) ==
    [X |-> 0, Y |-> 0, DX |-> 64, DY |-> 0, BBoxR |-> BBox0, BBoxL |-> BBox0,
     ChildNumR |-> childR, ChildNumL |-> childL]

BinSector(tag) ==
    [FloorHeight |-> 0, CeilingHeight |-> 128, FloorTexture |-> "FLOOR1",
     CeilingTexture |-> "F_SKY1", LightLevel |-> 160, Type |-> 0, TagNum |-> tag]

\* The tables of a level: [lines, sides, vertexes, segs, ssectors, nodes,
\* sectors], each the list of the binary records of its lump
LevelTables(lines, sides, vertexes, segs, ssectors, nodes, sectors) ==
    [lines |-> lines, sides |-> sides, vertexes |-> vertexes, segs |-> segs,
     ssectors |-> ssectors, nodes |-> nodes, sectors |-> sectors]

\* The bytes of a blockmap lump: the header (origin, columns, rows as int16),
\* the offset table and the block lists, as 16-bit words
RECURSIVE BlockMapBytes(_)
BlockMapBytes(words) ==
    IF Len(words) = 0 THEN <<>>
    ELSE U16Bytes(Head(words)) \o BlockMapBytes(Tail(words))

\* One block at word offset 5 whose list is two words 0 and the terminator
BaseBlockMap == BlockMapBytes(<<0, 0, 1, 1, 5, 0, 0, 65535>>)

\* The name lump and the ten lumps of a level of the tables t, with the bytes
\* of its REJECT lump and with its BLOCKMAP lump
LevelDirWith(name, t, reject, blockmap) ==
    <<Lump(name, 0),
      TableLump("THINGS", ThingSize,
          <<[X |-> 32, Y |-> 16, Angle |-> 90, Type |-> 1, Options |-> 7]>>),
      TableLump("LINEDEFS", LineSize, t.lines),
      TableLump("SIDEDEFS", SideSize, t.sides),
      TableLump("VERTEXES", VertexSize, t.vertexes),
      TableLump("SEGS", SegmentSize, t.segs),
      TableLump("SSECTORS", SubSectorSize, t.ssectors),
      TableLump("NODES", NodeSize, t.nodes),
      TableLump("SECTORS", SectorSize, t.sectors),
      RawLump("REJECT", reject),
      blockmap>>

LevelDirOf(name, t) ==
    LevelDirWith(name, t, <<0>>, RawLump("BLOCKMAP", BaseBlockMap))

\* One sector, one one-sided line, one segment, one subsector, one node
OneRoom ==
    LevelTables(<<BinLine(0, 1, 1, 0, -1)>>, <<BinSide(0)>>,
                <<BinVertex(0, 0), BinVertex(64, 0)>>, <<BinSeg(0, 1, 0, 0)>>,
                <<BinSubSector(1, 0)>>, <<BinNode(-32768, -32768)>>,
                <<BinSector(0)>>)

LevelDir(name) == LevelDirOf(name, OneRoom)

\* Two sectors: a one-sided line of sector 0 and a two-sided line between
\* sector 0 (right) and sector 1 (left); a segment on the one-sided line and
\* one on each side of the two-sided line; three subsectors; two nodes, the
\* root last
TwoRooms ==
    LevelTables(<<BinLine(0, 1, 1, 0, -1), BinLine(1, 2, 4, 0, 1)>>,
                <<BinSide(0), BinSide(1)>>,
                <<BinVertex(0, 0), BinVertex(64, 0), BinVertex(64, -32)>>,
                <<BinSeg(0, 1, 0, 0), BinSeg(1, 2, 1, 0), BinSeg(2, 1, 1, 1)>>,
                <<BinSubSector(1, 0), BinSubSector(1, 1), BinSubSector(1, 2)>>,
                <<BinNode(-32768, -32767), BinNode(0, -32766)>>,
                <<BinSector(0), BinSector(1)>>)

\* The patch, flat, sprite and sound lumps of the base archive
BasePatches == <<PictureLump("P1", PatchP1), PictureLump("P2", PatchP2)>>

FlatLump(name) == Lump(name, FlatWidth * FlatHeight)

BaseFlats ==
    <<Lump("F_START", 0), Lump("F1_START", 0), FlatLump("FLOOR1"), Lump("F_END", 0)>>

BaseSprites ==
    <<Lump("S_START", 0), PictureLump("TROOA1", SpritePic),
      PictureLump("TROOB2B8", SpritePic), PictureLump("POSSA0", PatchP2),
      Lump("S_END", 0)>>

BaseSounds == <<SoundLump("DSPISTOL", SoundFormat, 40), SoundLump("DSOLD", 2, 40)>>

\* The lumps of the assets: the fixed lumps, the patch names and the textures,
\* then the patch lumps, the picture lump titlepic, the flats, the sprites,
\* the sounds and one music lump
AssetsOf(pnames, texs, patches, titlepic, flats, sprites, sounds) ==
    <<Lump("PLAYPAL", PlaypalSize), Lump("COLORMAP", ColorMapsSize),
      Lump("ENDOOM", EndoomSize), PNamesLump(pnames), TextureLump("TEXTURE1", texs)>>
      \o patches \o <<titlepic>> \o flats \o sprites \o sounds
      \o <<[Lump("D_E1M1", MusicHeaderSize + 2) EXCEPT !.mus = [InstrumentCount |-> 1]]>>

\* The lumps of the assets, with the picture lump titlepic and the textures
AssetDir(titlepic, texs) ==
    AssetsOf(<<"p1", "P2">>, texs, BasePatches, titlepic, BaseFlats, BaseSprites,
             BaseSounds)

ArchiveOf(dir) ==
    [openable |-> TRUE, headerBytes |-> HeaderSize, Magic |-> "IWAD",
     NumLumps |-> Len(dir), InfoTableOfs |-> HeaderSize, dir |-> dir]

BaseTitle == PictureLump("TITLEPIC", TitlePic)

\* The archive with the level first (its name lump is directory entry 0)
Archive(titlepic, texs) == ArchiveOf(LevelDir("E1M1") \o AssetDir(titlepic, texs))

BaseArchive == Archive(BaseTitle, <<Wall1>>)

\* The archive whose level E1M1 has the tables t
LevelArchiveOf(t) ==
    ArchiveOf(LevelDirOf("E1M1", t) \o AssetDir(BaseTitle, <<Wall1>>))

\* The archive whose level E1M1 has the tables t and the given REJECT and
\* BLOCKMAP bytes
LevelArchiveWith(t, reject, blockmap) ==
    ArchiveOf(LevelDirWith("E1M1", t, reject, RawLump("BLOCKMAP", blockmap))
                \o AssetDir(BaseTitle, <<Wall1>>))

\* dir without the entries named name
RECURSIVE Without(_, _)
Without(dir, name) ==
    IF Len(dir) = 0 THEN <<>>
    ELSE IF Head(dir).Name = name THEN Without(Tail(dir), name)
    ELSE <<Head(dir)>> \o Without(Tail(dir), name)

\* Files that cannot be opened or whose header or directory is damaged
HeaderArchives ==
    {[BaseArchive EXCEPT !.openable = FALSE]}
    \cup {[BaseArchive EXCEPT !.headerBytes = b] : b \in {0, 4}}
    \cup {[BaseArchive EXCEPT !.Magic = m, !.InfoTableOfs = o] :
            m \in {"PWAD", "iwad", "IWAX", "WAD2", "DAWI"}, o \in {HeaderSize, -1}}
    \cup {[BaseArchive EXCEPT !.NumLumps = n] :
            n \in {-1, 0, Len(BaseArchive.dir) + 1}}
    \cup {[BaseArchive EXCEPT !.InfoTableOfs = -1]}

\* Files that lack a lump, hold a short one, or are laid out differently
LayoutArchives ==
    {ArchiveOf(Without(BaseArchive.dir, n)) :
        n \in {"PLAYPAL", "COLORMAP", "ENDOOM", "PNAMES", "TEXTURE1", "F_START",
               "F_END", "S_START", "S_END", "E1M1", "NODES"}}
    \cup {ArchiveOf(AssetDir(BaseTitle, <<Wall1>>) \o LevelDir("E1M1")),
          ArchiveOf(AssetDir(BaseTitle, <<Wall1>>) \o LevelDir("E1M1")
                        \o LevelDir("e1m2")),
          ArchiveOf(Tail(LevelDir("E1M1")) \o AssetDir(BaseTitle, <<Wall1>>)),
          ArchiveOf(AssetDir(BaseTitle, <<Wall1>>)),
          ArchiveOf(SubSeq(LevelDir("E1M1"), 1, 6) \o AssetDir(BaseTitle, <<Wall1>>)
                        \o LevelDir("E1M2"))}

\* Files whose TITLEPIC lump is each of the input pictures, a lump cut short
\* by the end of the file, a lump at a negative position, a lump of negative
\* size
PictureArchives ==
    {Archive(PictureLump("TITLEPIC", d), <<Wall1>>) : d \in PictureDescs}
    \cup {Archive(RawLump("TITLEPIC", b), <<Wall1>>) : b \in RawPictures}
    \cup {Archive([BaseTitle EXCEPT !.avail = a], <<Wall1>>) : a \in {0, 5}}
    \cup {Archive([BaseTitle EXCEPT !.Filepos = -1], <<Wall1>>),
          Archive([BaseTitle EXCEPT !.Size = -1], <<Wall1>>)}

\* Where a texture places a patch: the signed 16-bit extremes, and offsets
\* before, at, inside and past the texture rectangle
XOffsets == {-32768, -1, 0, 1, 32767}
YOffsets == {-32768, -(MaxHeight + 1), -MaxHeight, -1, 0, 1,
             MaxHeight - 1, MaxHeight, MaxHeight + 1, 32767}

\* <<width, height>> of the textures
TextureSizes ==
    {<<MaxWidth, MaxHeight>>, <<1, MaxHeight - 1>>, <<MaxWidth, 0>>, <<0, MaxHeight>>}

\* Textures of no patch, of one patch (P1 or P2) and of two patches
InputTextures ==
    {BinTexture("WALL1", s[1], s[2], <<>>) : s \in TextureSizes}
    \cup {BinTexture("WALL1", s[1], s[2], <<BinPatch(x, y, i)>>) :
             s \in TextureSizes, x \in XOffsets, y \in YOffsets, i \in {0, 1}}
    \cup {BinTexture("WALL1", MaxWidth, MaxHeight,
                      <<BinPatch(0, y, 0), BinPatch(x, 1, 1)>>) :
             x \in {-1, 0, 1}, y \in {-1, 0, 1}}

\* Files whose TEXTURE1 lump holds one of the textures, alone or after WALL1
TextureArchives ==
    {Archive(BaseTitle, <<t>>) : t \in InputTextures}
    \cup {Archive(BaseTitle, <<Wall1, [t EXCEPT !.TextureName = "WALL2"]>>) :
             t \in {BinTexture("WALL1", MaxWidth, MaxHeight, <<BinPatch(1, -1, 0)>>),
                    BinTexture("WALL1", 1, 1, <<>>)}}

\* Files whose PNAMES lists a patch name that has no lump: P3 listed and not
\* referenced, P3 referenced by the only texture or by the second one, and
\* the P2 of WALL1 without its lump
Wall3 == BinTexture("WALL3", 2, 3, <<BinPatch(0, 0, 0), BinPatch(1, 0, 2)>>)

PatchArchivesOf(texs) ==
    ArchiveOf(LevelDir("E1M1")
                \o AssetsOf(<<"p1", "P2", "P3">>, texs, BasePatches, BaseTitle,
                            BaseFlats, BaseSprites, BaseSounds))

PatchArchives ==
    {PatchArchivesOf(texs) : texs \in {<<Wall1>>, <<Wall3>>, <<Wall1, Wall3>>}}
    \cup {ArchiveOf(Without(BaseArchive.dir, "P2"))}

\* Files whose flats lie in different ways between the markers: nested
\* zero-size markers, no flat, the markers in reverse order, one name twice, a
\* flat cut short by the end of the file, a flat after F_END, and markers
\* that are not zero-sized
FlatRanges ==
    {<<Lump("F_START", 0), Lump("F1_START", 0), FlatLump("FLOOR1"),
       Lump("F1_END", 0), Lump("F2_START", 0), FlatLump("FLOOR2"),
       FlatLump("FLOOR3"), Lump("F2_END", 0), Lump("F_END", 0)>>,
     <<Lump("F_START", 0), Lump("F_END", 0)>>,
     <<Lump("F_END", 0), FlatLump("FLOOR1"), Lump("F_START", 0)>>,
     <<Lump("F_START", 0), FlatLump("FLOOR1"), FlatLump("FLOOR2"),
       FlatLump("FLOOR1"), Lump("F_END", 0)>>,
     <<Lump("F_START", 0), FlatLump("FLOOR1"),
       [FlatLump("FLOOR2") EXCEPT !.avail = 100], Lump("F_END", 0)>>,
     <<Lump("F_START", 0), FlatLump("FLOOR1"), Lump("F_END", 0),
       FlatLump("FLOOR2")>>,
     <<FlatLump("FLOOR0"), Lump("F_START", 0), FlatLump("FLOOR1"),
       FlatLump("F_END")>>,
     <<FlatLump("F_START"), FlatLump("FLOOR1"), Lump("F_END", 0)>>}

FlatArchives ==
    {ArchiveOf(LevelDir("E1M1")
                 \o AssetsOf(<<"p1", "P2">>, <<Wall1>>, BasePatches, BaseTitle, fl,
                             BaseSprites, BaseSounds)) : fl \in FlatRanges}

\* Files whose sprite lumps, between S_START and S_END, are named in
\* different ways: a rotation-0 lump alone, before and after a lump of one
\* rotation of the same frame, lumps of two frame/rotation pairs whose frame
\* letters differ or whose second rotation is '0' (for a sprite already in
\* the map and for a new one), a rotation digit past '8', and a lump of one
\* pair after a lump whose second pair names the same rotation
SpriteRanges ==
    {<<"TROOA2A8", "TROOA8">>, <<"TROOA2A8", "TROOA0">>, <<"TROOA8", "TROOA2A8">>,
     <<"TROOA0">>, <<"TROOA0", "TROOA1">>, <<"TROOA1", "TROOA0">>,
     <<"TROOA1", "TROOB2C8">>, <<"TROOA1", "TROOA2A0">>, <<"POSSA1B1">>,
     <<"POSSA2A0">>, <<"TROOA0", "TROOA5A0">>, <<"TROOA2A8", "TROOB0">>,
     <<"TROOA1", "TROOB2C8", "TROOB3B7">>, <<"TROOA9">>}

SpriteLumps(names) ==
    <<Lump("S_START", 0)>>
        \o [i \in 1..Len(names) |->
               PictureLump(names[i], IF i = 1 THEN SpritePic ELSE PatchP2)]
        \o <<Lump("S_END", 0)>>

SpriteArchiveOf(names) ==
    ArchiveOf(LevelDir("E1M1")
                \o AssetsOf(<<"p1", "P2">>, <<Wall1>>, BasePatches, BaseTitle,
                            BaseFlats, SpriteLumps(names), BaseSounds))

SpriteArchives == {SpriteArchiveOf(names) : names \in SpriteRanges}

\* Files whose sound lumps have each format word and each header.Bytes
\* around the 32 pad bytes; a lump holds 8 bytes after its header
SoundBytes == {0, 31, 32, 33, 40}

SoundRanges ==
    {<<SoundLump("DSPISTOL", SoundFormat, b)>> : b \in SoundBytes}
    \cup {<<SoundLump("DSOLD", fmt, 40), SoundLump("DSPISTOL", SoundFormat, 36)>> :
             fmt \in {0, 2, 4}}
    \cup {<<SoundLump("DSOLD", 2, 0), SoundLump("DSSHOTGN", SoundFormat, 33),
            SoundLump("DSPISTOL", SoundFormat, 31)>>}

SoundArchives ==
    {ArchiveOf(LevelDir("E1M1")
                 \o AssetsOf(<<"p1", "P2">>, <<Wall1>>, BasePatches, BaseTitle,
                             BaseFlats, BaseSprites, snd)) : snd \in SoundRanges}

\* Files with several levels: out of name order, one name twice, names of
\* either case after the assets, and a level whose THINGS lump comes twice
LevelArchives ==
    {ArchiveOf(LevelDir("E1M2") \o LevelDir("E1M1") \o AssetDir(BaseTitle, <<Wall1>>)),
     ArchiveOf(LevelDir("E1M1") \o LevelDir("E1M1") \o AssetDir(BaseTitle, <<Wall1>>)),
     ArchiveOf(AssetDir(BaseTitle, <<Wall1>>) \o LevelDir("MAP01")
                 \o LevelDir("e1m2") \o LevelDir("E2M1") \o LevelDir("E1M10")),
     ArchiveOf(SubSeq(LevelDir("E1M1"), 1, 2) \o Tail(LevelDir("E1M1"))
                 \o AssetDir(BaseTitle, <<Wall1>>))}

\* A level of nodes only: one node whose two children are the node itself
NodesOnly ==
    LevelTables(<<>>, <<>>, <<>>, <<>>, <<>>, <<BinNode(0, 0)>>, <<>>)

\* Files whose level has two rooms, or nothing but a node
RoomArchives == {LevelArchiveOf(TwoRooms), LevelArchiveOf(NodesOnly)}

\* Levels of one room whose line runs between two of these points: the
\* corners of the signed 16-bit range and points in between
Corners ==
    {BinVertex(-32768, 32767), BinVertex(0, 0), BinVertex(64, -32),
     BinVertex(32767, -32768)}

BoxArchives ==
    {LevelArchiveOf([OneRoom EXCEPT !.vertexes = <<v1, v2>>]) :
        v1 \in Corners, v2 \in Corners}

\* Levels whose segments lie on lines of each kind: the two rooms; a line
\* with two sides that is not flagged two-sided; a line flagged two-sided
\* that has no left side
SegArchives ==
    {LevelArchiveOf(TwoRooms),
     LevelArchiveOf([TwoRooms EXCEPT !.lines[2].Flags = 1]),
     LevelArchiveOf([TwoRooms EXCEPT !.segs = <<BinSeg(0, 1, 0, 0),
                                                  BinSeg(2, 1, 1, 1),
                                                  BinSeg(1, 2, 1, 0)>>]),
     LevelArchiveOf([OneRoom EXCEPT !.lines[1].Flags = 4])}

\* Levels whose nodes form a tree with the root last, a node that is its own
\* child, two nodes that are each other's child, a node that is both
\* children of the root, and a tree with the root first
NodeArchives ==
    {LevelArchiveOf(TwoRooms),
     LevelArchiveOf([OneRoom EXCEPT !.nodes = <<BinNode(0, -32768)>>]),
     LevelArchiveOf([TwoRooms EXCEPT !.nodes = <<BinNode(1, -32768),
                                                   BinNode(0, -32767)>>]),
     LevelArchiveOf([TwoRooms EXCEPT !.nodes = <<BinNode(-32768, -32767),
                                                   BinNode(0, 0)>>]),
     LevelArchiveOf([TwoRooms EXCEPT !.nodes = <<BinNode(1, -32766),
                                                   BinNode(-32768, -32767)>>]),
     LevelArchiveOf(NodesOnly)}

\* A segment on the left of a line that has no left side
OrphanArchives ==
    {LevelArchiveOf([OneRoom EXCEPT !.segs = <<BinSeg(0, 1, 0, 1)>>])}

\* The files of the level reader
LinkArchives ==
    RoomArchives \cup BoxArchives \cup SegArchives \cup NodeArchives
        \cup OrphanArchives

\* REJECT lumps: empty, one byte (2 x 2 cells) of each kind, and two bytes
\* (4 x 4 cells)
RejectLumps == {<<>>, <<1>>, <<128>>, <<255>>, <<6>>, <<5, 160>>, <<0, 0>>}

RejectArchives == {LevelArchiveWith(OneRoom, r, BaseBlockMap) : r \in RejectLumps}

\* A blockmap lump of origin (0, 0): the header, the offset table, the words
\* after it
BlockMapOf(columns, rows, offsets, lists) ==
    BlockMapBytes(<<0, 0, columns, rows>> \o offsets \o lists)

\* Blockmaps of columns x rows blocks that share one empty list (the sentinel
\* 0 and the terminator) placed after the offset table; a negative count
GridSizes == {<<0, 0>>, <<0, 5>>, <<1, 1>>, <<2, 1>>, <<1, 2>>, <<2, 2>>,
              <<-1, -1>>, <<-1, 1>>}

GridBlockMaps ==
    {BlockMapOf(g[1], g[2],
                [k \in 1..(IF g[1] * g[2] > 0 THEN g[1] * g[2] ELSE 0) |->
                    4 + (IF g[1] * g[2] > 0 THEN g[1] * g[2] ELSE 0)],
                <<0, 65535>>) : g \in GridSizes}

\* The smallest word offset whose byte position 2 * offset is not an int16
FarOffset == 2 ^ 14

\* One block whose list (the terminator alone) lies at word offset FarOffset,
\* the bytes between the offset table and the list being 0
FarBlockMap ==
    [RawLump("BLOCKMAP", BlockMapOf(1, 1, <<FarOffset>>, <<65535>>)) EXCEPT
        !.zeros = [at |-> 10, n |-> 2 * FarOffset - 10],
        !.Size = 2 * FarOffset + 2,
        !.avail = 2 * FarOffset + 2]

GridArchives ==
    {LevelArchiveWith(OneRoom, <<0>>, b) : b \in GridBlockMaps}
        \cup {ArchiveOf(LevelDirWith("E1M1", OneRoom, <<0>>, FarBlockMap)
                          \o AssetDir(BaseTitle, <<Wall1>>))}

\* Blockmaps of one block over the two lines of the two rooms, the list of the
\* block being the sentinel 0, these words and the terminator
BlockLists == {<<>>, <<1>>, <<0>>, <<0, 1>>, <<1, 0>>, <<1, 1>>}

ListBlockMaps == {BlockMapOf(1, 1, <<5>>, <<0>> \o b \o <<65535>>) : b \in BlockLists}

ListArchives == {LevelArchiveWith(TwoRooms, <<0>>, b) : b \in ListBlockMaps}

\* Blockmaps of one block whose offset points into the header (0, 2, 3), at
\* the offset table (4), at the end of the lump (6) and beyond it (7), the
\* list at word 5 being the terminator alone; and blockmaps whose list has no
\* terminator, the last of an odd number of bytes
OffsetBlockMaps ==
    {BlockMapOf(1, 1, <<o>>, <<65535>>) : o \in {0, 2, 3, 4, 6, 7}}
        \cup {BlockMapOf(1, 1, <<5>>, <<0, 1>>),
              BlockMapOf(1, 1, <<5>>, <<0, 1>>) \o <<1>>}

OffsetArchives == {LevelArchiveWith(TwoRooms, <<0>>, b) : b \in OffsetBlockMaps}

\* A blockmap of 2 x 2 empty blocks whose origin is (ox, oy)
BlockMapAt(ox, oy) ==
    BlockMapBytes(<<ox, oy, 2, 2, 8, 8, 8, 8, 0, 65535>>)

\* One room and a second sector that no side names
SpareSector == [OneRoom EXCEPT !.sectors = <<BinSector(0), BinSector(1)>>]

\* The two rooms with the walls running up and to the left, and with the far
\* ends of the walls in corners of the signed 16-bit range
RoomsUp ==
    [TwoRooms EXCEPT !.vertexes = <<BinVertex(0, 0), BinVertex(-64, 0),
                                    BinVertex(-64, 96)>>]

RoomsWide ==
    [TwoRooms EXCEPT !.vertexes = <<BinVertex(-32768, 32767), BinVertex(64, 0),
                                    BinVertex(32767, -32768)>>]

\* Levels of sectors with lines and without, under blockmaps of three origins
SectorArchives ==
    {LevelArchiveWith(t, <<0>>, b) :
        t \in {OneRoom, TwoRooms, SpareSector, RoomsUp, RoomsWide},
        b \in {BaseBlockMap, BlockMapAt(-64, -64), BlockMapAt(2000, -2000)}}

Archives ==
    {BaseArchive} \cup HeaderArchives \cup LayoutArchives \cup PictureArchives
        \cup TextureArchives \cup PatchArchives \cup FlatArchives
        \cup SpriteArchives \cup SoundArchives

(***************************************************************************)
(* The calls of a program that opens one archive and then reads it.        *)
(***************************************************************************)
PictureNames == {"TITLEPIC", "titlepic", "TitlePic", "P1", "p2", "TROOA1", "NOPE"}
LevelArgs == {"E1M1", "e1m2", "E1M2", "E1M9", "NOPE"}

\* The prototypes a caller passes as sectorUser: a struct of a plain field, a
\* struct of a plain field and a field that references cell 1 of the
\* caller's memory (a pointer, slice or map field), a pointer to a struct,
\* and an integer.
UserValue(kind, n, ref) == [kind |-> kind, n |-> n, ref |-> ref]

SectorUsers ==
    {UserValue("struct", 7, NilRef), UserValue("struct", 7, 1),
     UserValue("pointer", 0, 1), UserValue("int", 7, NilRef)}

\* The caller's memory before any call: no prototype, one object
NoUser == [proto |-> UserValue("nil", 0, NilRef), cells |-> <<0>>]

\* What the caller writes into a user value
UserWrites == {1}

Init ==
    /\ file \in Archives
    /\ w = NoWAD
    /\ heap = <<>>
    /\ ret = Ret("none", "", "")
    /\ user = NoUser

\* w, err := wad.NewWAD(filename)
NewWADReturns(r) ==
    /\ w' = r.wad
    /\ heap' = r.heap
    /\ ret' = r.ret

NewWAD ==
    /\ ret.op = "none"
    /\ NewWADReturns(NewWADOp(file))
    /\ UNCHANGED <<file, user>>

\* p, err := w.GetPicture(name)
GetPictureReturns(name, g, fp) ==
    /\ w' = [w EXCEPT !.Pictures = g.Pictures, !.PicturesNil = g.PicturesNil,
                      !.pos = fp.pos]
    /\ heap' = g.heap
    /\ ret' = [Ret("GetPicture", name, g.err) EXCEPT
                  !.ref = g.ref, !.hit = g.hit, !.ops = fp.ops]

GetPicture(name) ==
    /\ w.open
    /\ GetPictureReturns(name,
                         GetPictureOp(file, w.lumpNums, w.lumpInfos,
                                      w.TransparentIndex, w.Pictures,
                                      w.PicturesNil, heap, name),
                         GetPictureFile(file, w.lumpNums, w.lumpInfos, w.Pictures,
                                        w.PicturesNil, name,
                                        [pos |-> w.pos, ops |-> <<>>]))
    /\ UNCHANGED <<file, user>>

\* l, err := w.ReadLevel(name, sectorUser)
ReadLevelReturns(name, r) ==
    /\ ret' = [Ret("ReadLevel", name, r.err) EXCEPT
                  !.level = r.level, !.decoded = r.decoded, !.stage = r.stage,
                  !.ops = r.file.ops]
    /\ w' = [w EXCEPT !.pos = r.file.pos]

\* setReferences on the result r of the loop, in a build of either kind
ReadLevelLinks(name, r) ==
    \E ov \in FloatToIntOverflows : ReadLevelReturns(name, ReadLevelLinked(r, ov))

ReadLevel(name, sectorUser) ==
    /\ w.open
    /\ ReadLevelLinks(name, ReadLevelOp(file, w, name, sectorUser))
    /\ user' = [user EXCEPT !.proto = sectorUser]
    /\ UNCHANGED <<file, heap>>

\* names := w.LevelNames()
CallLevelNames ==
    /\ w.open
    /\ ret' = [Ret("LevelNames", "", "") EXCEPT !.names = LevelNames(w.levels)]
    /\ UNCHANGED <<file, w, heap, user>>

\* The caller replaces the plain field of the user value of sector i (1-based)
\* of the level it holds: u := s.User.(T); u.n = v; s.User = u
SetSectorUserField(i, v) ==
    /\ ret.op \in {"ReadLevel", "SetSectorUser"}
    /\ ret.err = ""
    /\ i \in 1..Len(ret.level.Sectors)
    /\ ret.level.Sectors[i].User.n # v
    /\ ret' = [ret EXCEPT !.op = "SetSectorUser", !.level.Sectors[i].User.n = v]
    /\ UNCHANGED <<file, w, heap, user>>

\* The caller writes v into the object that the reference-typed field of the
\* user value of sector i points to: *s.User.(T).ref = v
WriteSectorUserRef(i, v) ==
    /\ ret.op \in {"ReadLevel", "SetSectorUser"}
    /\ ret.err = ""
    /\ i \in 1..Len(ret.level.Sectors)
    /\ ret.level.Sectors[i].User.ref # NilRef
    /\ user.cells[ret.level.Sectors[i].User.ref] # v
    /\ user' = [user EXCEPT !.cells[ret.level.Sectors[i].User.ref] = v]
    /\ ret' = [ret EXCEPT !.op = "SetSectorUser"]
    /\ UNCHANGED <<file, w, heap>>

\* A program that opens an archive and reads pictures from it
Next ==
    \/ NewWAD
    \/ \E name \in PictureNames : GetPicture(name)

Spec == Init /\ [][Next]_vars

\* A program that opens an archive and reads levels from it
InitLevel ==
    /\ file \in {BaseArchive} \cup HeaderArchives \cup LayoutArchives
                  \cup LevelArchives \cup LinkArchives
    /\ w = NoWAD
    /\ heap = <<>>
    /\ ret = Ret("none", "", "")
    /\ user = NoUser

NextLevel ==
    \/ NewWAD
    \/ \E name \in LevelArgs, u \in SectorUsers : ReadLevel(name, u)
    \/ CallLevelNames
    \/ \E i \in 1..MaxSectors, v \in UserWrites : SetSectorUserField(i, v)
    \/ \E i \in 1..MaxSectors, v \in UserWrites : WriteSectorUserRef(i, v)

SpecLevel == InitLevel /\ [][NextLevel]_vars

\* Levels for the subsector and node loops: one room without nodes, one room
\* whose subsector has no segments, and two rooms whose first subsector
\* holds segments of both sectors
BspArchives ==
    {LevelArchiveOf([OneRoom EXCEPT !.nodes = <<>>]),
     LevelArchiveOf([OneRoom EXCEPT !.ssectors = <<BinSubSector(0, 0)>>]),
     LevelArchiveOf([TwoRooms EXCEPT
                       !.segs = <<BinSeg(0, 1, 0, 0), BinSeg(2, 1, 1, 1),
                                  BinSeg(1, 2, 1, 0)>>,
                       !.ssectors = <<BinSubSector(2, 0), BinSubSector(2, 1)>>,
                       !.nodes = <<BinNode(-32768, -32767)>>])}

\* A program that opens an archive and reads the level E1M1, or a level the
\* archive does not have, with a struct or an integer as prototype
MapArchives ==
    RejectArchives \cup GridArchives \cup ListArchives \cup OffsetArchives
        \cup SectorArchives \cup BspArchives

MapArgs == {"E1M1", "NOPE"}
MapUsers == {UserValue("struct", 7, NilRef), UserValue("int", 7, NilRef)}

InitMap ==
    /\ file \in MapArchives
    /\ w = NoWAD
    /\ heap = <<>>
    /\ ret = Ret("none", "", "")
    /\ user = NoUser

NextMap ==
    \/ NewWAD
    \/ \E name \in MapArgs, u \in MapUsers : ReadLevel(name, u)

SpecMap == InitMap /\ [][NextMap]_vars

\* The directory dir with its lumps laid out one after the other from offset
\* pos on: every lump starts where the one before it ends, and the file
\* holds from a lump's offset on the bytes of that lump and of the lumps
\* after it
RECURSIVE SizeOfLumps(_)
SizeOfLumps(dir) ==
    IF Len(dir) = 0 THEN 0 ELSE Head(dir).Size + SizeOfLumps(Tail(dir))

RECURSIVE LaidOutFrom(_, _)
LaidOutFrom(dir, pos) ==
    IF Len(dir) = 0 THEN <<>>
    ELSE <<[Head(dir) EXCEPT !.Filepos = pos, !.avail = SizeOfLumps(dir)]>>
            \o LaidOutFrom(Tail(dir), pos + Head(dir).Size)

\* The archive a with its lumps laid out behind the header
LaidOut(a) == [a EXCEPT !.dir = LaidOutFrom(a.dir, HeaderSize)]

\* Archives for the calls that read lumps: the base archive and the two
\* rooms, with all lumps at one offset and with the lumps laid out, and an
\* archive whose TITLEPIC lies at a negative offset
SeekArchives ==
    {BaseArchive, LaidOut(BaseArchive), LaidOut(LevelArchiveOf(TwoRooms)),
     Archive([BaseTitle EXCEPT !.Filepos = -1], <<Wall1>>)}

\* A program that opens an archive and reads pictures and levels from it
InitSeek ==
    /\ file \in SeekArchives
    /\ w = NoWAD
    /\ heap = <<>>
    /\ ret = Ret("none", "", "")
    /\ user = NoUser

NextSeek ==
    \/ NewWAD
    \/ \E name \in PictureNames : GetPicture(name)
    \/ \E name \in MapArgs : ReadLevel(name, UserValue("struct", 7, NilRef))

SpecSeek == InitSeek /\ [][NextSeek]_vars

(***************************************************************************)
(* Properties.  What a picture lump written from a description must decode *)
(* to is stated from the description, not from the decoder.                *)
(***************************************************************************)

\* The upper-cased form of each name the program asks for
UpperOf ==
    [n \in PictureNames |->
        CASE n \in {"TITLEPIC", "titlepic", "TitlePic"} -> "TITLEPIC"
          [] n = "p2" -> "P2"
          [] OTHER -> n]

\* The directory entry the archive reads for a lump name
EntryOf(name) == file.dir[w.lumpNums[name] + 1]

\* The posts of a column that cover the 0-based row r
Covering(posts, r) ==
    {k \in 1..Len(posts) : posts[k].top <= r /\ r < posts[k].top + Len(posts[k].pix)}

\* The byte a decoded cell must hold: transparent when no post covers the
\* row, else the pixel of the (last) post covering it
ExpectedCell(posts, r) ==
    IF Covering(posts, r) = {} THEN 255
    ELSE LET k == CHOOSE j \in Covering(posts, r) :
                      \A i \in Covering(posts, r) : i <= j
         IN  posts[k].pix[r - posts[k].top + 1]

\* The cached picture of name holds, cell by cell, what its lump describes
DecodedAsDescribed(name) ==
    LET pic == heap[w.Pictures[name]]
        d   == EntryOf(name).desc
    IN  /\ Len(pic.Columns) = Len(d.Columns)
        /\ \A c \in 1..Len(pic.Columns) :
              \A r \in 0..(Len(pic.Columns[c]) - 1) :
                  pic.Columns[c][r + 1] = ExpectedCell(d.Columns[c], r)

\* Some post of the description reaches past the picture height
HasTallPost(d) ==
    \E c \in 1..Len(d.Columns) : \E k \in 1..Len(d.Columns[c]) :
        d.Columns[c][k].top + Len(d.Columns[c][k].pix) > d.Height

\* C1: NewWAD succeeds only on the magic "IWAD": on a file whose header could
\* be read and whose magic is anything else, "PWAD" included, it returns the
\* bad-magic error and no archive, and it has read no directory entry.
C1_OnlyIWADOpens ==
    /\ w.open => file.Magic = "IWAD"
    /\ (/\ ret.op = "NewWAD"
        /\ file.openable
        /\ file.headerBytes >= HeaderSize
        /\ file.Magic # "IWAD")
       => /\ ret.err = "bad magic: " \o file.Magic
          /\ ret.stage = "magic"
          /\ ret.entriesRead = 0
          /\ w = NoWAD

\* A patch archive whose directory offset is unreadable is refused for its
\* magic, before the directory is touched
C1_Witness ==
    /\ ret.op = "NewWAD"
    /\ file.Magic = "PWAD"
    /\ file.InfoTableOfs = -1
    /\ ret.err = "bad magic: PWAD"
    /\ ~w.open

\* C2: ReadLevel with a name that is no key of the level index returns an
\* error and no level, and hands no directory entry to a lump reader.
C2_UnknownLevelIsAnError ==
    (ret.op = "ReadLevel" /\ ~Has(w.levels, ret.arg)) =>
        /\ ret.err # ""
        /\ ret.level = NoLevel
        /\ ret.decoded = <<>>

\* The name NOPE, no level of the archive, yields a level and no error
C2_UnknownLevelReturned ==
    /\ ret.op = "ReadLevel"
    /\ ret.arg = "NOPE"
    /\ ~Has(w.levels, "NOPE")
    /\ ret.err = ""
    /\ ret.level # NoLevel
    /\ ret.decoded # <<>>

\* C3: once a picture is cached under an upper-cased name, no later call
\* replaces or re-decodes the entry, and a call with any letter-case variant
\* of the name returns the cached reference.
C3_CacheIdentity ==
    [][\A name \in DOMAIN w.Pictures :
          /\ name \in DOMAIN w'.Pictures
          /\ w'.Pictures[name] = w.Pictures[name]
          /\ Len(heap') >= w.Pictures[name]
          /\ heap'[w.Pictures[name]] = heap[w.Pictures[name]]
          /\ (ret'.op = "GetPicture" /\ UpperOf[ret'.arg] = name)
             => /\ ret'.err = ""
                /\ ret'.ref = w.Pictures[name]
                /\ heap' = heap]_vars

\* The patch decoded as "P2" while opening is returned for "p2", after
\* TITLEPIC was decoded in between
C3_Witness ==
    /\ ret.op = "GetPicture"
    /\ ret.arg = "p2"
    /\ ret.hit
    /\ ret.err = ""
    /\ ret.ref = w.Pictures["P2"]
    /\ Has(w.Pictures, "TITLEPIC")

\* C4: GetPicture returns an error when the directory holds no lump of the
\* upper-cased name, and a failing call leaves the cache with exactly the
\* entries it had and returns no picture.
C4_FailureKeepsCache ==
    [][ret'.op = "GetPicture" =>
          /\ (\A i \in 1..Len(file.dir) : file.dir[i].Name # UpperOf[ret'.arg])
             => ret'.err # ""
          /\ ret'.err # ""
             => /\ w'.Pictures = w.Pictures
                /\ heap' = heap
                /\ ret'.ref = NilRef]_vars

\* A call for a missing lump fails on a cache that holds entries, TITLEPIC
\* (added by an earlier call) among them
C4_Witness ==
    /\ ret.op = "GetPicture"
    /\ ret.arg = "NOPE"
    /\ ret.err = "NOPE lump not found"
    /\ ret.ref = NilRef
    /\ Has(w.Pictures, "TITLEPIC")
    /\ Has(w.Pictures, "P1")

\* C5: every cached picture has as many columns as the width of its lump
\* header and every column as many cells as the height of the header.
C5_ColumnsMatchHeader ==
    \A name \in DOMAIN w.Pictures :
        LET pic == heap[w.Pictures[name]]
            e   == EntryOf(name)
        IN  /\ e.hasDesc
            /\ pic.Width = e.desc.Width
            /\ pic.Height = e.desc.Height
            /\ Len(pic.Columns) = pic.Width
            /\ \A c \in 1..Len(pic.Columns) : Len(pic.Columns[c]) = pic.Height

\* A picture of the greatest width, with posts, has been decoded
C5_Witness ==
    /\ Has(w.Pictures, "TITLEPIC")
    /\ heap[w.Pictures["TITLEPIC"]].Width = MaxWidth
    /\ heap[w.Pictures["TITLEPIC"]].Height = MaxHeight - 1
    /\ Len(heap[w.Pictures["TITLEPIC"]].Columns) = MaxWidth
    /\ EntryOf("TITLEPIC").desc.Columns[1] # <<>>

C7_TallPostsClipped ==
    (/\ ret.op = "GetPicture"
     /\ UpperOf[ret.arg] = "TITLEPIC"
     /\ EntryOf("TITLEPIC").hasDesc
     /\ EntryOf("TITLEPIC").desc.Width > 0
     /\ HasTallPost(EntryOf("TITLEPIC").desc))
    => /\ ret.err = ""
       /\ Has(w.Pictures, "TITLEPIC")
       /\ DecodedAsDescribed("TITLEPIC")

\* Decoding a column of height 2 with a two-pixel post at row 1 faults
C7_TallPostFaults ==
    /\ ret.op = "GetPicture"
    /\ ret.arg = "TITLEPIC"
    /\ EntryOf("TITLEPIC").desc = Pic(1, 2, 0, 0, <<<<Post(1, <<9, 255>>)>>>>)
    /\ ret.err = Panic
    /\ ~Has(w.Pictures, "TITLEPIC")

\* C8: a cached picture keeps the left and top offsets of its lump header.
C8_OffsetsRetained ==
    \A name \in DOMAIN w.Pictures :
        EntryOf(name).hasDesc =>
            /\ heap[w.Pictures[name]].LeftOffset = EntryOf(name).desc.LeftOffset
            /\ heap[w.Pictures[name]].TopOffset = EntryOf(name).desc.TopOffset

\* A picture whose header has the offsets -3 and 32767 is cached with 0 and 0
C8_OffsetsLost ==
    /\ Has(w.Pictures, "TITLEPIC")
    /\ EntryOf("TITLEPIC").desc.LeftOffset = -3
    /\ EntryOf("TITLEPIC").desc.TopOffset = 32767
    /\ heap[w.Pictures["TITLEPIC"]].LeftOffset = 0
    /\ heap[w.Pictures["TITLEPIC"]].TopOffset = 0

\* The texture records of the TEXTURE1 lumps of a file
TexturesOf(f) ==
    UNION {{f.dir[i].tex[k] : k \in 1..Len(f.dir[i].tex)} :
              i \in {j \in 1..Len(f.dir) : f.dir[j].Name = "TEXTURE1"}}

\* Every texture of the file has a size that is not negative and patches that
\* name one of the two pictures of PNAMES
WellFormedTextures(f) ==
    \A t \in TexturesOf(f) :
        /\ t.Width >= 0
        /\ t.Height >= 0
        /\ \A k \in 1..Len(t.patches) : t.patches[k].PatchNameIdx \in {0, 1}

\* The rectangle of patch p, placed at its offsets, holds the 0-based cell
\* (x, y) of the composite
PatchCovers(p, x, y) ==
    /\ p.XOffset <= x
    /\ x < p.XOffset + heap[p.Picture].Width
    /\ p.YOffset <= y
    /\ y < p.YOffset + heap[p.Picture].Height

\* The patches of texture t whose rectangle holds the cell (x, y)
CoveringPatches(t, x, y) ==
    {k \in 1..Len(t.Patches) : PatchCovers(t.Patches[k], x, y)}

\* Every covered cell of every composite holds the pixel of the last patch
\* covering it, taken at (x - x_offset, y - y_offset) of the patch picture
CoveredCellsBlitted ==
    \A i \in 1..Len(w.TexturesList) :
        LET t == w.TexturesList[i] IN
        \A x \in 0..(t.Width - 1) : \A y \in 0..(t.Height - 1) :
            CoveringPatches(t, x, y) # {} =>
                LET k == CHOOSE j \in CoveringPatches(t, x, y) :
                             \A m \in CoveringPatches(t, x, y) : m <= j
                    q == t.Patches[k]
                IN  t.Picture.Columns[x + 1][y + 1]
                      = heap[q.Picture].Columns[x - q.XOffset + 1][y - q.YOffset + 1]

\* C9: every cell of a texture composite that lies in the rectangle of no
\* patch of the texture holds the transparent index 255.
C9_CompositeStartsTransparent ==
    \A i \in 1..Len(w.TexturesList) :
        LET t == w.TexturesList[i] IN
        \A x \in 0..(t.Width - 1) : \A y \in 0..(t.Height - 1) :
            CoveringPatches(t, x, y) = {} => t.Picture.Columns[x + 1][y + 1] = 255

\* A texture without patches is composed of cells that hold 0
C9_CompositeStartsZero ==
    /\ w.open
    /\ Len(w.TexturesList) = 1
    /\ w.TexturesList[1].Patches = <<>>
    /\ w.TexturesList[1].Width = MaxWidth
    /\ w.TexturesList[1].Height = MaxHeight
    /\ \A x \in 1..MaxWidth : \A y \in 1..MaxHeight :
          w.TexturesList[1].Picture.Columns[x][y] = 0

\* C10: composing the textures of a file whose textures are well formed
\* never faults, wherever in the signed 16-bit range the patches are placed,
\* and each covered cell of a composite holds the patch pixel clipped there.
C10_BlitClipped ==
    /\ (ret.op = "NewWAD" /\ WellFormedTextures(file))
       => ~(ret.stage = "readTextures" /\ ret.err = Panic)
    /\ CoveredCellsBlitted

\* A patch placed one row below the texture makes the open fault
C10_PatchBelowFaults ==
    /\ ret.op = "NewWAD"
    /\ TexturesOf(file)
         = {BinTexture("WALL1", MaxWidth, MaxHeight, <<BinPatch(0, MaxHeight + 1, 0)>>)}
    /\ ret.stage = "readTextures"
    /\ ret.err = Panic
    /\ ~w.open

(***************************************************************************)
(* Patch names without a lump.                                             *)
(***************************************************************************)

\* The directory entry of f named name, if any
HasLump(f, name) == \E i \in 1..Len(f.dir) : f.dir[i].Name = name

\* The entry of f named name (f has one)
LumpNamed(f, name) == f.dir[CHOOSE i \in 1..Len(f.dir) : f.dir[i].Name = name]

\* The texture records of TEXTURE1, in file order
TextureRecords(f) == LumpNamed(f, "TEXTURE1").tex

\* The 0-based positions in PNAMES of the names that have no lump
MissingPatches(f) ==
    {i \in 0..(Len(LumpNamed(f, "PNAMES").pnames) - 1) :
        ~HasLump(f, ToUpper(LumpNamed(f, "PNAMES").pnames[i + 1]))}

\* texture record bt references a patch whose name has no lump
ReferencesMissing(f, bt) ==
    \E k \in 1..Len(bt.patches) : bt.patches[k].PatchNameIdx \in MissingPatches(f)

\* C11: a patch name listed in PNAMES that has no lump is not fatal: opening
\* the archive succeeds and every texture that references the patch is built
\* and stored, with the null picture reference in the matching patch slot.
C11_MissingPatchNotFatal ==
    (ret.op = "NewWAD" /\ file \in PatchArchives)
        => /\ ret.err = ""
           /\ \A t \in 1..Len(TextureRecords(file)) :
                 LET bt == TextureRecords(file)[t] IN
                 /\ t <= Len(w.TexturesList)
                 /\ w.TexturesList[t].Name = bt.TextureName
                 /\ \A k \in 1..Len(bt.patches) :
                       bt.patches[k].PatchNameIdx \in MissingPatches(file)
                           => w.TexturesList[t].Patches[k].Picture = NilRef

\* A texture references a patch without a lump and NewWAD faults while it
\* builds the textures: the blit dereferences the nil picture.
C11_MissingPatchFaults ==
    /\ ret.op = "NewWAD"
    /\ file \in PatchArchives
    /\ \E t \in 1..Len(TextureRecords(file)) : ReferencesMissing(file, TextureRecords(file)[t])
    /\ ret.stage = "readTextures"
    /\ ret.err = Panic
    /\ ~w.open

\* A listed patch without a lump that no texture references: the archive opens.
C11_UnreferencedMissingPatchOpens ==
    /\ ret.op = "NewWAD"
    /\ file \in PatchArchives
    /\ MissingPatches(file) # {}
    /\ \A t \in 1..Len(TextureRecords(file)) : ~ReferencesMissing(file, TextureRecords(file)[t])
    /\ ret.err = ""
    /\ w.open

(***************************************************************************)
(* Flats.                                                                  *)
(***************************************************************************)

\* The directory indices (0-based) strictly between the markers whose entry
\* is not zero-sized
FlatEntries ==
    {i \in (w.lumpNums["F_START"] + 1)..(w.lumpNums["F_END"] - 1) :
        w.lumpInfos[i + 1].Size # 0}

\* C12: the flat decoder produces one flat for exactly the directory entries
\* strictly between F_START and F_END whose size is not zero, in directory
\* order, each flat's Index being its position in the flat list; zero-size
\* entries and the two markers never produce a flat.
C12_FlatsOfRange ==
    w.open =>
        /\ Len(w.FlatsList) = Cardinality(FlatEntries)
        /\ \A k \in 1..Len(w.FlatsList) :
              /\ w.FlatsList[k].Index = k - 1
              /\ w.FlatsList[k].Lump \in FlatEntries
              /\ w.FlatsList[k].Name = w.lumpInfos[w.FlatsList[k].Lump + 1].Name
              /\ \A j \in 1..(k - 1) : w.FlatsList[j].Lump < w.FlatsList[k].Lump

\* An F_START entry that is not zero-sized is decoded as the first flat.
C12_MarkerBecomesFlat ==
    /\ w.open
    /\ w.lumpInfos[w.lumpNums["F_START"] + 1].Size # 0
    /\ Len(w.FlatsList) = 2
    /\ w.FlatsList[1].Name = "F_START"
    /\ w.FlatsList[1].Lump = w.lumpNums["F_START"]
    /\ w.FlatsList[2].Name = "FLOOR1"

\* The flats of a file with nested zero-size markers: the three sized entries
C12_NestedMarkersSkipped ==
    /\ w.open
    /\ Cardinality(FlatEntries) = 3
    /\ w.lumpNums["F_END"] - w.lumpNums["F_START"] = 8
    /\ Len(w.FlatsList) = 3

(***************************************************************************)
(* Sprites.                                                                *)
(***************************************************************************)

\* The names of the lumps of f between S_START and S_END that are not
\* zero-sized, in directory order
RECURSIVE SpriteNamesFrom(_, _, _)
SpriteNamesFrom(dir, i, inside) ==
    IF i > Len(dir) THEN <<>>
    ELSE IF dir[i].Name = "S_START" THEN SpriteNamesFrom(dir, i + 1, TRUE)
    ELSE IF dir[i].Name = "S_END" THEN <<>>
    ELSE IF inside /\ dir[i].Size # 0
    THEN <<dir[i].Name>> \o SpriteNamesFrom(dir, i + 1, inside)
    ELSE SpriteNamesFrom(dir, i + 1, inside)

SpriteNames(f) == SpriteNamesFrom(f.dir, 1, FALSE)

CharAt(s, i) == SubSeq(s, i, i)     \* i is 1-based

\* The 1-based frame of a frame letter
FrameOf(c) == CHOOSE k \in 1..26 : SubSeq(UpperLetters, k, k) = c

\* C13: after the sprite decoder has processed all lumps, every frame for
\* which a rotation-0 lump (name PPPPF0) was processed has the same picture
\* reference in all 8 rotation slots.
C13_RotationZeroFillsAllSlots ==
    (w.open /\ file \in SpriteArchives) =>
        \A i \in 1..Len(SpriteNames(file)) :
            LET n == SpriteNames(file)[i] IN
            (Len(n) = 6 /\ CharAt(n, 6) = "0") =>
                /\ Has(w.Sprites, SubSeq(n, 1, 4))
                /\ FrameOf(CharAt(n, 5)) <= Len(w.Sprites[SubSeq(n, 1, 4)])
                /\ \A d \in 1..8 :
                      w.Sprites[SubSeq(n, 1, 4)][FrameOf(CharAt(n, 5))][d].Picture
                        = w.Sprites[SubSeq(n, 1, 4)][FrameOf(CharAt(n, 5))][1].Picture

\* TROOA0 filled the 8 slots of frame A and the later TROOA1 replaced the
\* first of them with another picture.
C13_LaterRotationReplacesSlot ==
    /\ w.open
    /\ SpriteNames(file) = <<"TROOA0", "TROOA1">>
    /\ w.Sprites["TROO"][1][1].Picture = w.Pictures["TROOA1"]
    /\ \A d \in 2..8 : w.Sprites["TROO"][1][d].Picture = w.Pictures["TROOA0"]
    /\ w.Pictures["TROOA0"] # w.Pictures["TROOA1"]

\* A rotation-0 lump processed last leaves its picture in all 8 slots.
C13_RotationZeroLast ==
    /\ w.open
    /\ SpriteNames(file) = <<"TROOA1", "TROOA0">>
    /\ \A d \in 1..8 : w.Sprites["TROO"][1][d].Picture = w.Pictures["TROOA0"]

\* The name of the lump a picture reference was decoded from ("" for nil)
NameOfRef(pics, ref) ==
    IF ref = NilRef THEN "" ELSE CHOOSE k \in DOMAIN pics : pics[k] = ref

\* A sprite map with the lump names in place of the picture references
SpriteView(sprites, pics) ==
    [s \in DOMAIN sprites |->
        [k \in 1..Len(sprites[s]) |->
            [d \in 1..8 |->
                [Picture   |-> NameOfRef(pics, sprites[s][k][d].Picture),
                 IsFlipped |-> sprites[s][k][d].IsFlipped]]]]

\* An 8-character name whose second frame letter differs from the first or
\* whose second rotation digit is '0'
Rejected(n) ==
    Len(n) = 8 /\ (CharAt(n, 7) # CharAt(n, 5) \/ CharAt(n, 8) = "0")

\* dir without the rejected lumps between S_START and S_END
RECURSIVE WithoutRejectedFrom(_, _, _)
WithoutRejectedFrom(dir, i, inside) ==
    IF i > Len(dir) THEN <<>>
    ELSE IF inside /\ Rejected(dir[i].Name)
    THEN WithoutRejectedFrom(dir, i + 1, inside)
    ELSE <<dir[i]>> \o WithoutRejectedFrom(dir, i + 1,
                           (inside \/ dir[i].Name = "S_START")
                               /\ dir[i].Name # "S_END")

WithoutRejected(dir) == WithoutRejectedFrom(dir, 1, FALSE)

\* The sprite map of the opened archive a
SpriteViewOf(a) == SpriteView(a.wad.Sprites, a.wad.Pictures)

\* C14: an 8-character sprite lump whose second frame letter differs from
\* the first, or whose second rotation digit is '0', is rejected as a whole:
\* the sprite map and every rotation slot are as if the lump had not been
\* processed.
C14_RejectedLumpLeavesNoTrace ==
    (w.open /\ file \in SpriteArchives) =>
        SpriteView(w.Sprites, w.Pictures)
            = SpriteViewOf(NewWADOp(ArchiveOf(WithoutRejected(file.dir))))

\* TROOB2C8 is rejected for its frame letters, and frame B of the sprite it
\* found in the map holds its picture in the slot of rotation 2.
C14_FirstPairRemains ==
    /\ w.open
    /\ SpriteNames(file) = <<"TROOA1", "TROOB2C8">>
    /\ Len(w.Sprites["TROO"]) = 2
    /\ w.Sprites["TROO"][2][2].Picture = w.Pictures["TROOB2C8"]
    /\ ~w.Sprites["TROO"][2][2].IsFlipped
    /\ \A d \in 1..8 : ~w.Sprites["TROO"][2][d].IsFlipped

\* A rejected lump of a sprite that is not in the map yet leaves no sprite.
C14_NewSpriteNotStored ==
    /\ w.open
    /\ SpriteNames(file) = <<"POSSA1B1">>
    /\ w.Sprites = <<>>

(***************************************************************************)
(* Sounds.                                                                 *)
(***************************************************************************)

\* The entries of f whose name starts with "DS"
SoundEntries(f) ==
    {i \in 1..Len(f.dir) : SubSeq(f.dir[i].Name, 1, 2) = "DS"}

\* C15: for every lump whose name starts with "DS" and whose format word is
\* 3 the decoded sound has exactly header.Bytes - 32 samples, for every
\* value of header.Bytes (below 32 the count does not wrap around to a huge
\* one); lumps of another format are skipped and the load continues.
C15_SampleCount ==
    (ret.op = "NewWAD" /\ file \in SoundArchives) =>
        /\ ret.err = ""
        /\ \A i \in SoundEntries(file) :
              IF file.dir[i].snd.Format = SoundFormat
              THEN /\ Has(w.Sounds, file.dir[i].Name)
                   /\ w.Sounds[file.dir[i].Name].NumSamples # WrappedCount
                   /\ file.dir[i].snd.Bytes >= SoundPadBytes
                         => w.Sounds[file.dir[i].Name].NumSamples
                              = file.dir[i].snd.Bytes - SoundPadBytes
              ELSE ~Has(w.Sounds, file.dir[i].Name)

\* A sound of format 3 whose header.Bytes is below 32: the wrapped count is
\* read from the file and NewWAD fails in readSounds.
C15_SmallCountFailsLoad ==
    /\ ret.op = "NewWAD"
    /\ file \in SoundArchives
    /\ \E i \in SoundEntries(file) :
          /\ file.dir[i].snd.Format = SoundFormat
          /\ file.dir[i].snd.Bytes < SoundPadBytes
    /\ ret.stage = "readSounds"
    /\ ret.err = ErrUnexpectedEOF
    /\ ~w.open

\* A lump of another format is skipped and the sound after it is decoded.
C15_OtherFormatSkipped ==
    /\ w.open
    /\ file \in SoundArchives
    /\ DOMAIN w.Sounds = {"DSPISTOL"}
    /\ w.Sounds["DSPISTOL"].NumSamples = 4
    /\ \E i \in SoundEntries(file) : file.dir[i].snd.Format = 4

(***************************************************************************)
(* The level index and the level names.                                    *)
(***************************************************************************)

\* The 1-based positions of the entries of f named THINGS that have an entry
\* before them
ThingsEntries(f) == {i \in 2..Len(f.dir) : f.dir[i].Name = "THINGS"}

\* The names of the entries that immediately precede a lump named THINGS
LevelEntryNames(f) == {f.dir[i - 1].Name : i \in ThingsEntries(f)}

\* C16: the level-names query returns, in ascending order and without
\* duplicates, exactly the names of the entries that immediately precede a
\* lump named THINGS, and the level index maps each name to that entry's
\* directory index; building the index completes for every directory,
\* including one whose entry 0 is named THINGS.
C16_LevelNamesAndIndex ==
    /\ (ret.op = "NewWAD" /\ ret.stage = "readInfoTables"
            /\ file.NumLumps = Len(file.dir))
          => ret.err # Panic
    /\ ret.op = "LevelNames" =>
          /\ {ret.names[k] : k \in 1..Len(ret.names)} = LevelEntryNames(file)
          /\ \A k \in 1..(Len(ret.names) - 1) :
                StringLess(ret.names[k], ret.names[k + 1])
          /\ DOMAIN w.levels = LevelEntryNames(file)
          /\ \A nm \in DOMAIN w.levels :
                \E i \in ThingsEntries(file) :
                    file.dir[i - 1].Name = nm /\ w.levels[nm] = i - 2

\* The directory starts with a lump named THINGS and NewWAD faults while it
\* reads the directory: lumpInfos[-1].
C16_ThingsFirstFaults ==
    /\ ret.op = "NewWAD"
    /\ file.NumLumps = Len(file.dir)
    /\ file.dir[1].Name = "THINGS"
    /\ ret.stage = "readInfoTables"
    /\ ret.err = Panic
    /\ ~w.open

\* The names of four levels stored out of order come back sorted by bytes.
C16_NamesSorted ==
    /\ ret.op = "LevelNames"
    /\ ret.names = <<"E1M10", "E2M1", "MAP01", "e1m2">>
    /\ w.levels["MAP01"] < w.levels["e1m2"]
    /\ w.levels["e1m2"] < w.levels["E2M1"]

(***************************************************************************)
(* The user values of the sectors.                                         *)
(***************************************************************************)

\* What a user value holds: its plain field and the content of the object
\* its reference-typed field points to (-1 when the field is nil)
UserView(u, cells) ==
    [kind |-> u.kind, n |-> u.n,
     target |-> IF u.ref = NilRef THEN -1 ELSE cells[u.ref]]

\* The step changed the user value of no sector but sector i, nor the prototype
OnlySectorChanged(i) ==
    /\ UserView(user'.proto, user'.cells) = UserView(user.proto, user.cells)
    /\ \A j \in (1..Len(ret.level.Sectors)) \ {i} :
          UserView(ret'.level.Sectors[j].User, user'.cells)
            = UserView(ret.level.Sectors[j].User, user.cells)

\* C17: ReadLevel gives every sector its own deep copy of the prototype:
\* changing the user value of one sector, or anything reachable through a
\* field of it, changes neither the prototype nor the user value of another
\* sector; and when the prototype is not a plain value-typed record
\* ReadLevel returns an error and no level.
C17_SectorsOwnDeepCopies ==
    /\ [][\A i \in 1..MaxSectors, v \in UserWrites :
            (SetSectorUserField(i, v) \/ WriteSectorUserRef(i, v))
                => OnlySectorChanged(i)]_vars
    /\ [](ret.op = "ReadLevel" /\ user.proto.kind # "struct"
            => ret.err # "" /\ ret.level = NoLevel)

\* The caller wrote through the reference field of the user value of one of
\* two sectors: the object is the prototype's and the other sector's too.
C17_WriteReachesPrototype ==
    /\ ret.op = "SetSectorUser"
    /\ Len(ret.level.Sectors) = 2
    /\ user.proto.ref # NilRef
    /\ ret.level.Sectors[1].User.ref = user.proto.ref
    /\ ret.level.Sectors[2].User.ref = user.proto.ref
    /\ user.cells[user.proto.ref] # 0

\* The plain field of a sector's user value is the sector's own.
C17_PlainFieldIsOwn ==
    /\ ret.op = "SetSectorUser"
    /\ Len(ret.level.Sectors) = 2
    /\ ret.level.Sectors[1].User.n = 1
    /\ ret.level.Sectors[2].User.n = 7
    /\ user.proto.n = 7

\* A pointer prototype and a level without sectors: a level is returned.
C17_PointerPrototypeAccepted ==
    /\ ret.op = "ReadLevel"
    /\ user.proto.kind = "pointer"
    /\ ret.err = ""
    /\ Len(ret.level.Nodes) = 1

(***************************************************************************)
(* The linked level.                                                       *)
(***************************************************************************)

\* ReadLevel returned a linked level
Linked == ret.op = "ReadLevel" /\ ret.err = ""

\* C18: after linking, every line has bounding_box.left = min(v1.x, v2.x),
\* right = max(v1.x, v2.x), bottom = min(v1.y, v2.y) and top = max(v1.y,
\* v2.y), so that left <= right and bottom <= top, for every pair of
\* endpoint coordinates in the signed 16-bit range.
C18_LineBoundingBox ==
    Linked =>
        \A i \in 1..Len(ret.level.Lines) :
            LET L  == ret.level.Lines[i]
                v1 == ret.level.Vertexes[L.V1Num + 1]
                v2 == ret.level.Vertexes[L.V2Num + 1]
            IN  /\ L.BoundingBox.Left = Min(v1.X, v2.X)
                /\ L.BoundingBox.Right = Max(v1.X, v2.X)
                /\ L.BoundingBox.Bottom = Min(v1.Y, v2.Y)
                /\ L.BoundingBox.Top = Max(v1.Y, v2.Y)
                /\ L.BoundingBox.Left <= L.BoundingBox.Right
                /\ L.BoundingBox.Bottom <= L.BoundingBox.Top

\* The line from (-32768, 32767) to (64, -32) is linked with left = 32767,
\* the larger y, right = 64, bottom = -32 and top = 0.
C18_LeftHoldsLargerY ==
    /\ Linked
    /\ ret.level.Vertexes = <<[X |-> -32768, Y |-> 32767], [X |-> 64, Y |-> -32]>>
    /\ ret.level.Lines[1].BoundingBox
         = [Top |-> 0, Bottom |-> -32, Left |-> 32767, Right |-> 64]

\* The sector of side number n of the linked level (n >= 0)
SectorOfSide(n) == ret.level.Sides[n + 1].SectorNum

\* The level lump of the file named name
TablesOf(f, name) == LumpNamed(f, name).tbl

\* C19: after linking, every segment has front_sector equal to the sector of
\* its own side (the line's left side when the direction flag is 1, else
\* the right side), and its back_sector is present if and only if its line
\* has the two-sided flag, in which case it is the sector of the line's
\* opposite side; linking a segment of a line flagged two-sided whose
\* opposite side index is -1 does not fault.
C19_SegmentSectors ==
    /\ (ret.op = "ReadLevel" /\ file \in SegArchives /\ user.proto.kind = "struct")
          => ret.err = ""
    /\ Linked =>
          \A i \in 1..Len(ret.level.LineSegments) :
              LET S    == ret.level.LineSegments[i]
                  L    == ret.level.Lines[S.LineNum + 1]
                  own  == IF S.IsSideL THEN L.SideLNum ELSE L.SideRNum
                  opp  == IF S.IsSideL THEN L.SideRNum ELSE L.SideLNum
              IN  /\ S.FrontSector = SectorOfSide(own)
                  /\ (S.BackSector # NilIndex) <=> L.TwoSided
                  /\ L.TwoSided => S.BackSector = SectorOfSide(opp)

\* The only line is flagged two-sided and has no left side: ReadLevel faults
\* when it links the segment on its right side.
C19_TwoSidedWithoutSideFaults ==
    /\ ret.op = "ReadLevel"
    /\ user.proto.kind = "struct"
    /\ file \in SegArchives
    /\ Len(TablesOf(file, "LINEDEFS")) = 1
    /\ TablesOf(file, "LINEDEFS")[1].Flags = 4
    /\ TablesOf(file, "LINEDEFS")[1].SideL = -1
    /\ TablesOf(file, "SEGS") = <<BinSeg(0, 1, 0, 0)>>
    /\ ret.err = Panic
    /\ ret.level = NoLevel

\* The segments of the two rooms: the one on the left of the two-sided line
\* has sector 1 in front and sector 0 behind.
C19_LeftSegmentLinked ==
    /\ Linked
    /\ Len(ret.level.LineSegments) = 3
    /\ ret.level.LineSegments[3].IsSideL
    /\ ret.level.LineSegments[3].FrontSector = 1
    /\ ret.level.LineSegments[3].BackSector = 0
    /\ ret.level.LineSegments[1].BackSector = NilIndex

\* The nodes that are children of node n (0-based) of the linked nodes
ChildNodes(nodes, n) ==
    {c.num : c \in {x \in {nodes[n + 1].ChildR, nodes[n + 1].ChildL} :
                       x.kind = "Node"}}

\* The nodes reached from the nodes of S by at most k child references
RECURSIVE NodesWithin(_, _, _)
NodesWithin(nodes, S, k) ==
    IF k = 0 THEN S
    ELSE NodesWithin(nodes, S \cup UNION {ChildNodes(nodes, n) : n \in S}, k - 1)

\* The nodes reached from node n by one child reference or more
Descendants(nodes, n) == NodesWithin(nodes, ChildNodes(nodes, n), Len(nodes))

\* The child slots <<node, side>> that reference node n
SlotsOf(nodes, n) ==
    {<<m, "R">> : m \in {k \in 0..(Len(nodes) - 1) :
                           nodes[k + 1].ChildR = [kind |-> "Node", num |-> n]}}
    \cup {<<m, "L">> : m \in {k \in 0..(Len(nodes) - 1) :
                                nodes[k + 1].ChildL = [kind |-> "Node", num |-> n]}}

\* C20: in every linked level the root node is the last node of the node
\* list, following child references from the root along any path reaches a
\* subsector after finitely many steps (no node is reachable from itself),
\* and every non-root node is referenced by exactly one child slot.
C20_NodesFormTree ==
    Linked =>
        /\ ret.level.RootNode = Len(ret.level.Nodes) - 1
        /\ PrintTree(ret.level.Nodes, ret.level.RootNode)
        /\ \A n \in 0..(Len(ret.level.Nodes) - 1) :
              /\ n \notin Descendants(ret.level.Nodes, n)
              /\ n # ret.level.RootNode
                    => Cardinality(SlotsOf(ret.level.Nodes, n)) = 1

\* A linked level whose only node is its own right child.
C20_NodeIsItsOwnChild ==
    /\ Linked
    /\ Len(ret.level.Nodes) = 1
    /\ Len(ret.level.SubSectors) = 1
    /\ ret.level.RootNode = 0
    /\ ret.level.Nodes[1].ChildR = [kind |-> "Node", num |-> 0]
    /\ ~PrintTree(ret.level.Nodes, ret.level.RootNode)

\* The two nodes of the two rooms form a tree under the last node.
C20_TwoRoomsTree ==
    /\ Linked
    /\ Len(ret.level.Nodes) = 2
    /\ ret.level.RootNode = 1
    /\ PrintTree(ret.level.Nodes, ret.level.RootNode)
    /\ Descendants(ret.level.Nodes, 1) = {0}
    /\ SlotsOf(ret.level.Nodes, 0) = {<<1, "R">>}

(***************************************************************************)
(* The reject matrix.                                                      *)
(***************************************************************************)
\* ReadLevel returned a level
LevelReturned == ret.op = "ReadLevel" /\ ret.err = ""

\* The directory entries named name that the last ReadLevel call decoded
DecodedLumps(name) ==
    {file.dir[ret.decoded[k] + 1] : k \in {j \in DOMAIN ret.decoded :
                                    file.dir[ret.decoded[j] + 1].Name = name}}

\* Bit (cell mod 8) of byte (cell div 8) of lump is set
RejectBit(lump, cell) == (lump[(cell \div 8) + 1] \div (2 ^ (cell % 8))) % 2 = 1

\* reject is the N x N matrix of the bits of lump, N = isqrt(8 * size)
RejectOfBits(lump, reject) ==
    LET n == ISqrt(8 * Len(lump)) IN
    /\ Len(reject) = n
    /\ \A s1 \in 1..n :
          /\ Len(reject[s1]) = n
          /\ \A s2 \in 1..n :
                LET cell == (s1 - 1) * n + (s2 - 1) IN
                /\ cell \div 8 < Len(lump)
                /\ reject[s1][s2] = RejectBit(lump, cell)

\* C21: the decoded reject matrix has N rows of N cells, N = isqrt(8 * lump
\* size); entry (s1, s2) is true if and only if bit (cell mod 8) of lump byte
\* (cell div 8) is set, cell = s1 * N + s2; no cell reads a byte at or beyond
\* the lump size.
C21_RejectMatrix ==
    LevelReturned =>
        \A e \in DecodedLumps("REJECT") : RejectOfBits(e.data, ret.level.Reject)

\* C21, the failing case: the lump is the byte 1 (bit 0 only) and the entry
\* (0, 1) of the matrix, whose bit 1 is clear, is true
C21_ClearBitReadAsSet ==
    /\ LevelReturned
    /\ \E e \in DecodedLumps("REJECT") : e.data = <<1>>
    /\ Len(ret.level.Reject) = 2
    /\ ret.level.Reject[1][2]
    /\ ~RejectBit(<<1>>, 1)

\* C21, the part that holds: the matrix is square of side isqrt(8 * size) and
\* no cell reads beyond the lump
C21_SquareOfSide ==
    LevelReturned =>
        \A e \in DecodedLumps("REJECT") :
            LET n == ISqrt(8 * Len(e.data)) IN
            /\ Len(ret.level.Reject) = n
            /\ \A s1 \in 1..n : Len(ret.level.Reject[s1]) = n
            /\ n * n <= 8 * Len(e.data)

(***************************************************************************)
(* The blockmap.                                                           *)
(***************************************************************************)
\* The header's columns and rows, as signed 16-bit values
ColumnsOf(lump) == LumpInt16(lump, 4)
RowsOf(lump) == LumpInt16(lump, 6)

\* Offset k (1-based) of the offset table, as the unsigned word it is stored as
OffsetOf(lump, k) == LumpWord(lump, BlockMapHeaderSize + 2 * (k - 1))

\* The words of lump from byte position p on hold a 0xFFFF
RECURSIVE Terminated(_, _)
Terminated(lump, p) ==
    /\ p + 2 <= LumpLen(lump)
    /\ \/ LumpWord(lump, p) = 65535
       \/ Terminated(lump, p + 2)

\* The header is whole, the count columns * rows is not negative and the
\* offset table fits the lump
TableFits(lump) ==
    /\ LumpLen(lump) >= BlockMapHeaderSize
    /\ ColumnsOf(lump) * RowsOf(lump) >= 0
    /\ BlockMapHeaderSize + 2 * ColumnsOf(lump) * RowsOf(lump) <= LumpLen(lump)

\* Every offset points at a word of the lump after the header and its list
\* has a terminator
ListsFit(lump) ==
    \A k \in 1..(ColumnsOf(lump) * RowsOf(lump)) :
        /\ OffsetOf(lump, k) >= 4
        /\ 2 * OffsetOf(lump, k) < LumpLen(lump)
        /\ Terminated(lump, 2 * OffsetOf(lump, k))

\* The words of the list at byte position p up to its terminator
RECURSIVE ListWords(_, _)
ListWords(lump, p) ==
    IF LumpWord(lump, p) = 65535 THEN <<>>
    ELSE <<LumpWord(lump, p)>> \o ListWords(lump, p + 2)

\* Every word of every list is the index of a line of the decoded LINEDEFS
LinesInRange(lump) ==
    \A k \in 1..(ColumnsOf(lump) * RowsOf(lump)) :
        \A j \in DOMAIN ListWords(lump, 2 * OffsetOf(lump, k)) :
            \A t \in DecodedLumps("LINEDEFS") :
                ListWords(lump, 2 * OffsetOf(lump, k))[j] < Len(t.tbl)

\* C22: the decoded blockmap has exactly columns * rows blocks, for every
\* pair of header values whose product fits the lump; the product and the
\* byte position 2 * offset are computed without 16-bit wrap-around.
C22_BlockCount ==
    ret.op = "ReadLevel" =>
        \A e \in DecodedLumps("BLOCKMAP") :
            (TableFits(e) /\ ListsFit(e) /\ LinesInRange(e)) =>
                \/ ret.stage = "setReferences"      \* a fault of another table
                \/ /\ ret.err = ""
                   /\ Len(ret.level.BlockMap.Blocks)
                          = ColumnsOf(e) * RowsOf(e)

\* C22, the failing case: one block whose list lies at word offset 2^14 of a
\* lump that holds it; the call faults
C22_FarOffsetFaults ==
    /\ ret.op = "ReadLevel"
    /\ ret.err = Panic
    /\ ret.stage = "lumps"
    /\ \E e \in DecodedLumps("BLOCKMAP") :
          /\ TableFits(e) /\ ListsFit(e)
          /\ ColumnsOf(e) * RowsOf(e) = 1
          /\ OffsetOf(e, 1) = FarOffset
          /\ WrapInt16(2 * FarOffset) < 0

\* C22, the part that holds: the blocks of a returned level are as many as the
\* header's product
C22_BlocksOfGrid ==
    /\ LevelReturned
    /\ \E e \in DecodedLumps("BLOCKMAP") : ColumnsOf(e) = 2 /\ RowsOf(e) = 2
    /\ Len(ret.level.BlockMap.Blocks) = 4

\* The list of every block starts with the sentinel word 0
ListsHaveSentinel(lump) ==
    \A k \in 1..(ColumnsOf(lump) * RowsOf(lump)) :
        LumpWord(lump, 2 * OffsetOf(lump, k)) = 0

\* C23: the decoded line-index list of each block is exactly the sequence of
\* words between the leading 0x0000 word and the first 0xFFFF word of the
\* block's list, in order (a line index 0 after the sentinel is kept), and
\* after linking the block's line references are the lines at those indices.
C23_BlockLists ==
    LevelReturned =>
        \A e \in DecodedLumps("BLOCKMAP") :
            (TableFits(e) /\ ListsFit(e) /\ ListsHaveSentinel(e)) =>
                \A k \in 1..(ColumnsOf(e) * RowsOf(e)) :
                    /\ ret.level.BlockMap.Blocks[k].LineNums
                          = Tail(ListWords(e, 2 * OffsetOf(e, k)))
                    /\ ret.level.BlockMap.Blocks[k].Lines
                          = Tail(ListWords(e, 2 * OffsetOf(e, k)))

\* C23, the failing case: the list of the block is 0, 0, 1, 0xFFFF (the
\* sentinel, line 0, line 1) and the block holds line 1 alone
C23_LineZeroDropped ==
    /\ LevelReturned
    /\ \E e \in DecodedLumps("BLOCKMAP") :
          /\ TableFits(e) /\ ListsFit(e) /\ ListsHaveSentinel(e)
          /\ ListWords(e, 2 * OffsetOf(e, 1)) = <<0, 0, 1>>
    /\ Len(ret.level.Lines) = 2
    /\ ret.level.BlockMap.Blocks[1].LineNums = <<1>>
    /\ ret.level.BlockMap.Blocks[1].Lines = <<1>>

\* C23, the part that holds: the words of a list other than 0 are kept in
\* order and the line references are the lines at the indices kept
C23_NonZeroWordsKept ==
    LevelReturned =>
        \A k \in DOMAIN ret.level.BlockMap.Blocks :
            /\ ret.level.BlockMap.Blocks[k].Lines = ret.level.BlockMap.Blocks[k].LineNums
            /\ \A e \in DecodedLumps("BLOCKMAP") :
                  (TableFits(e) /\ ListsFit(e)) =>
                      ret.level.BlockMap.Blocks[k].LineNums
                          = SelectSeq(ListWords(e, 2 * OffsetOf(e, k)), LAMBDA x : x # 0)

\* The offset table fits and a block offset is less than 4 or points at or
\* beyond the end of the lump, or a list has no terminator
Malformed(lump) ==
    /\ TableFits(lump)
    /\ \E k \in 1..(ColumnsOf(lump) * RowsOf(lump)) :
          \/ OffsetOf(lump, k) < 4
          \/ 2 * OffsetOf(lump, k) >= LumpLen(lump)
          \/ ~Terminated(lump, 2 * OffsetOf(lump, k))

\* C24: blockmap decode fails with an error, returning no blockmap and no
\* level, whenever a block offset is less than 4 or points at or beyond the
\* end of the lump, or a block list runs off the end of the lump without a
\* terminator; it never faults and never reads header words as line indices.
C24_MalformedFails ==
    ret.op = "ReadLevel" =>
        \A e \in DecodedLumps("BLOCKMAP") :
            Malformed(e) =>
                \/ ret.stage = "setReferences"       \* a fault of another table
                \/ /\ ret.err \notin {"", Panic}
                   /\ ret.level = NoLevel

\* C24, the failing case: the offset of the block is 0 and the level is
\* returned, the block holding the header words columns = 1 and rows = 1 as
\* line indices
C24_HeaderReadAsLines ==
    /\ LevelReturned
    /\ \E e \in DecodedLumps("BLOCKMAP") :
          /\ Malformed(e)
          /\ OffsetOf(e, 1) = 0
          /\ ColumnsOf(e) = 1 /\ RowsOf(e) = 1
    /\ ret.level.BlockMap.Blocks[1].LineNums = <<1, 1>>

\* C24, a second failing case: the offset points beyond the end of the lump
\* and the call faults
C24_OffsetBeyondFaults ==
    /\ ret.op = "ReadLevel"
    /\ ret.stage = "lumps"
    /\ ret.err = Panic
    /\ \E e \in DecodedLumps("BLOCKMAP") :
          TableFits(e) /\ 2 * OffsetOf(e, 1) > LumpLen(e)

\* C24, the part that holds: an offset at the end of the lump, or a list
\* without terminator at an offset inside the lump, ends the call with an
\* error and no level
C24_RunOffFails ==
    ret.op = "ReadLevel" =>
        \A e \in DecodedLumps("BLOCKMAP") :
            (/\ TableFits(e)
             /\ \A k \in 1..(ColumnsOf(e) * RowsOf(e)) :
                   2 * OffsetOf(e, k) <= LumpLen(e)
             /\ \E k \in 1..(ColumnsOf(e) * RowsOf(e)) :
                   ~Terminated(e, 2 * OffsetOf(e, k))) =>
                /\ ret.err \in {ErrEOF, ErrUnexpectedEOF}
                /\ ret.level = NoLevel

(***************************************************************************)
(* The sectors after linking.  The expected values are computed from the   *)
(* lines of the returned level, in integers.                               *)
(***************************************************************************)
\* The x and y coordinates of the endpoints of the lines of sector i (0-based)
\* of the returned level
SectorXs(i) ==
    {ret.level.Lines[j].V1.X : j \in {k \in DOMAIN ret.level.Lines :
                                        LineOfSector(ret.level.Lines[k], i)}}
        \cup {ret.level.Lines[j].V2.X : j \in {k \in DOMAIN ret.level.Lines :
                                        LineOfSector(ret.level.Lines[k], i)}}

SectorYs(i) ==
    {ret.level.Lines[j].V1.Y : j \in {k \in DOMAIN ret.level.Lines :
                                        LineOfSector(ret.level.Lines[k], i)}}
        \cup {ret.level.Lines[j].V2.Y : j \in {k \in DOMAIN ret.level.Lines :
                                        LineOfSector(ret.level.Lines[k], i)}}

MinOf(S) == CHOOSE m \in S : \A x \in S : m <= x
MaxOf(S) == CHOOSE m \in S : \A x \in S : m >= x

\* v clamped into [0, n - 1]
Clamp(v, n) == IF v < 0 THEN 0 ELSE IF v > n - 1 THEN n - 1 ELSE v

\* The stored value a is the integer n
IsInt(a, n) == a = Float(n)

\* The stored value a is an integer within [0, n - 1]
Within(a, n) == \E v \in 0..(n - 1) : IsInt(a, v)

\* C25: after linking, the blockmap bounding box of each sector holds four
\* values, top and bottom within [0, rows - 1] and left and right within
\* [0, columns - 1], each computed from its own edge of the world bounding
\* box of the sector's lines, the blockmap origin and the MaxRadius = 32 pad.
C25_BlockBoxClamped ==
    (LevelReturned /\ ret.level.BlockMap.NumRows >= 1
                   /\ ret.level.BlockMap.NumColumns >= 1) =>
        \A i \in DOMAIN ret.level.Sectors :
            LET bb == ret.level.Sectors[i].BlockBox
                bm == ret.level.BlockMap
            IN
            /\ Within(bb.Top, bm.NumRows) /\ Within(bb.Bottom, bm.NumRows)
            /\ Within(bb.Left, bm.NumColumns) /\ Within(bb.Right, bm.NumColumns)
            /\ SectorXs(i - 1) # {} =>
                  /\ IsInt(bb.Top, Clamp(MaxOf(SectorYs(i - 1)) - bm.OriginY
                                            + MaxRadius, bm.NumRows))
                  /\ IsInt(bb.Bottom, Clamp(MinOf(SectorYs(i - 1)) - bm.OriginY
                                            - MaxRadius, bm.NumRows))
                  /\ IsInt(bb.Right, Clamp(MaxOf(SectorXs(i - 1)) - bm.OriginX
                                            + MaxRadius, bm.NumColumns))
                  /\ IsInt(bb.Left, Clamp(MinOf(SectorXs(i - 1)) - bm.OriginX
                                            - MaxRadius, bm.NumColumns))

\* C25, the failing case: the two rooms under a blockmap of 2 x 2 blocks with
\* origin (-64, -64).  The lines of sector 0 span x in 0..64: right holds the
\* left edge 0 + 64 - 32 = 32, which is no column of the blockmap, left holds
\* 0 and top is no row
C25_RightHoldsLeftEdge ==
    /\ LevelReturned
    /\ ret.level.BlockMap.NumRows = 2 /\ ret.level.BlockMap.NumColumns = 2
    /\ ret.level.BlockMap.OriginX = -64 /\ ret.level.BlockMap.OriginY = -64
    /\ Len(ret.level.Sectors) = 2
    /\ SectorXs(0) = {0, 64}
    /\ IsInt(ret.level.Sectors[1].BlockBox.Right, 32)
    /\ IsInt(ret.level.Sectors[1].BlockBox.Left, 0)
    /\ ~Within(ret.level.Sectors[1].BlockBox.Top, 2)
    /\ NumLess(ret.level.Sectors[1].BlockBox.Top, Float(0))

\* C25, what the code keeps: bottom is the padded bottom edge, not below 0,
\* and right is the padded left edge, not below 0
C25_LowerBoundsOnly ==
    LevelReturned =>
        \A i \in DOMAIN ret.level.Sectors :
            SectorXs(i - 1) # {} =>
                /\ IsInt(ret.level.Sectors[i].BlockBox.Bottom,
                         Max(MinOf(SectorYs(i - 1)) - ret.level.BlockMap.OriginY
                                - MaxRadius, 0))
                /\ IsInt(ret.level.Sectors[i].BlockBox.Right,
                         Max(MinOf(SectorXs(i - 1)) - ret.level.BlockMap.OriginX
                                - MaxRadius, 0))
                /\ IsInt(ret.level.Sectors[i].BlockBox.Left, 0)

\* C25, a sector without lines: what int gives for 2^63 decides its bottom
C25_BuildDecidesBottom ==
    /\ LevelReturned
    /\ Len(ret.level.Sectors) = 2
    /\ SectorXs(1) = {}
    /\ ret.level.Sectors[2].BlockBox.Bottom = MaxInt64

C25_BuildDecidesBottomZero ==
    /\ LevelReturned
    /\ Len(ret.level.Sectors) = 2
    /\ SectorXs(1) = {}
    /\ IsInt(ret.level.Sectors[2].BlockBox.Bottom, 0)

\* The 0-based indices of the lines of the returned level whose front or back
\* sector is sector i (0-based)
LinesOfSector(i) ==
    {k - 1 : k \in {j \in DOMAIN ret.level.Lines :
                        \/ ret.level.Lines[j].FrontSector = i
                        \/ ret.level.Lines[j].BackSector = i}}

\* seq holds the members of S, each once, in ascending order
AscendingOf(seq, S) ==
    /\ {seq[k] : k \in DOMAIN seq} = S
    /\ \A j, k \in DOMAIN seq : j < k => seq[j] < seq[k]

\* The stored value a is n / 2
IsHalfOf(a, n) == a = [hi |-> 0, lo |-> n]

\* C26: after linking, the line list of each sector holds exactly the lines
\* whose front or back sector is that sector, each once, in line order, and
\* its sound origin is the centre ((right + left) / 2, (top + bottom) / 2) of
\* the bounding box over both endpoints of those lines, top the maximum and
\* bottom the minimum endpoint y; a sector with no lines gets (0, 0).
C26_LinesAndSoundOrigin ==
    LevelReturned =>
        \A i \in DOMAIN ret.level.Sectors :
            /\ AscendingOf(ret.level.Sectors[i].Lines, LinesOfSector(i - 1))
            /\ IF LinesOfSector(i - 1) = {}
               THEN /\ IsHalfOf(ret.level.Sectors[i].SoundOrigin.X, 0)
                    /\ IsHalfOf(ret.level.Sectors[i].SoundOrigin.Y, 0)
               ELSE /\ IsHalfOf(ret.level.Sectors[i].SoundOrigin.X,
                                MaxOf(SectorXs(i - 1)) + MinOf(SectorXs(i - 1)))
                    /\ IsHalfOf(ret.level.Sectors[i].SoundOrigin.Y,
                                MaxOf(SectorYs(i - 1)) + MinOf(SectorYs(i - 1)))

\* C26, the failing case: the lines of sector 0 of the two rooms span x in
\* 0..64 and y in -32..0; the sound origin has x = 32 and y = -2^62, the
\* half of -2^63 + (-32) in float64, where the centre has y = -16
C26_SoundOriginFarBelow ==
    /\ LevelReturned
    /\ Len(ret.level.Sectors) = 2
    /\ ret.level.Sectors[1].Lines = <<0, 1>>
    /\ SectorXs(0) = {0, 64}
    /\ SectorYs(0) = {-32, 0}
    /\ IsHalfOf(ret.level.Sectors[1].SoundOrigin.X, 64)
    /\ ret.level.Sectors[1].SoundOrigin.Y = [hi |-> -1, lo |-> 0]

\* C26, the part that holds: the line lists, the x of the sound origin, and
\* the sound origin (0, 0) of a sector without lines
C26_LinesAndCentreX ==
    LevelReturned =>
        \A i \in DOMAIN ret.level.Sectors :
            /\ AscendingOf(ret.level.Sectors[i].Lines, LinesOfSector(i - 1))
            /\ IF LinesOfSector(i - 1) = {}
               THEN /\ IsHalfOf(ret.level.Sectors[i].SoundOrigin.X, 0)
                    /\ IsHalfOf(ret.level.Sectors[i].SoundOrigin.Y, 0)
               ELSE IsHalfOf(ret.level.Sectors[i].SoundOrigin.X,
                             MaxOf(SectorXs(i - 1)) + MinOf(SectorXs(i - 1)))

\* C26, a sector without lines was linked
C26_SectorWithoutLines ==
    /\ LevelReturned
    /\ Len(ret.level.Sectors) = 2
    /\ ret.level.Sectors[2].Lines = <<>>
    /\ IsHalfOf(ret.level.Sectors[2].SoundOrigin.Y, 0)

(***************************************************************************)
(* The children of the nodes.                                              *)
(***************************************************************************)
\* BSPType of a BSP member
BSPType(m) == IF m.kind = "SubSector" THEN "BSPSubSector" ELSE "BSPNode"

\* The typed child that child number c stands for: bit 15 set names the
\* subsector of the low 15 bits
TypedChild(c) ==
    IF c < 0 THEN [kind |-> "SubSector", num |-> c + 32768]
    ELSE [kind |-> "Node", num |-> c]

ChildrenTyped(nodes) ==
    \A i \in 1..Len(nodes) :
        /\ nodes[i].ChildR = TypedChild(nodes[i].ChildNumR)
        /\ nodes[i].ChildL = TypedChild(nodes[i].ChildNumL)
        /\ (BSPType(nodes[i].ChildR) = "BSPSubSector") <=> (nodes[i].ChildNumR < 0)
        /\ (BSPType(nodes[i].ChildL) = "BSPSubSector") <=> (nodes[i].ChildNumL < 0)

\* ReadLevel read the lumps of the level and went on to link it
Linking == ret.op = "ReadLevel" /\ ret.stage # "lumps"

\* C27: for every node of a linked level and each of its two raw signed
\* 16-bit child values c, the typed child is the subsector at index
\* c & 0x7FFF if c < 0 and the node at index c otherwise, and the
\* discriminator reported for the child agrees with the sign of c; linking a
\* level whose NODES lump is empty completes without a fault.
C27_TypedChildren ==
    /\ LevelReturned => ChildrenTyped(ret.level.Nodes)
    /\ (Linking /\ TablesOf(file, "NODES") = <<>>) => ret.err = ""

\* The level of one room without nodes: ReadLevel faults when it takes the
\* last node as the root.
C27_EmptyNodesFaults ==
    /\ Linking
    /\ ret.stage = "setReferences"
    /\ TablesOf(file, "NODES") = <<>>
    /\ Len(TablesOf(file, "SSECTORS")) = 1
    /\ ret.err = Panic
    /\ ret.level = NoLevel

\* The children of the nodes of every returned level are typed by the sign
\* of their numbers.
C27_ChildrenBySign == LevelReturned => ChildrenTyped(ret.level.Nodes)

\* The two nodes of the two rooms: three subsector children and one node
\* child.
C27_TwoRoomsChildren ==
    /\ LevelReturned
    /\ Len(ret.level.Nodes) = 2
    /\ ret.level.Nodes[1].ChildR = [kind |-> "SubSector", num |-> 0]
    /\ ret.level.Nodes[1].ChildL = [kind |-> "SubSector", num |-> 1]
    /\ ret.level.Nodes[2].ChildR = [kind |-> "Node", num |-> 0]
    /\ ret.level.Nodes[2].ChildL = [kind |-> "SubSector", num |-> 2]

(***************************************************************************)
(* The segments of the subsectors.                                         *)
(***************************************************************************)
\* Subsector X holds the segments segs[start, start + count) of the level,
\* and its sector is the sector of the side of the first of them
HoldsItsSegments(l, X) ==
    /\ Len(X.LineSegments) = X.numLineSegments
    /\ \A j \in 1..Len(X.LineSegments) :
          X.LineSegments[j] = l.LineSegments[X.StartLineSegment + j]
    /\ X.Sector = l.Sides[X.LineSegments[1].Side + 1].Sector
    /\ \A j \in 1..Len(X.LineSegments) :
          LET side == l.Sides[X.LineSegments[j].Side + 1] IN
          side.SectorNum = X.Sector => side.Sector = X.Sector

\* C28: after linking, every subsector X holds copies of the already-linked
\* segments at indices [start, start+count) of the level's segment list, in
\* order, and X.sector is the sector of the side of the first of them, so
\* that every segment of X whose side lies in that sector satisfies
\* side.sector == X.sector; a subsector with count 0 is linked without a
\* fault.
C28_SubSectorSegments ==
    /\ LevelReturned =>
          \A i \in 1..Len(ret.level.SubSectors) :
              HoldsItsSegments(ret.level, ret.level.SubSectors[i])
    /\ (Linking /\ \E i \in 1..Len(TablesOf(file, "SSECTORS")) :
                      TablesOf(file, "SSECTORS")[i].NumSegments = 0)
          => ret.err = ""

\* The level of one room whose subsector has no segments: ReadLevel faults
\* when it takes the first segment of the subsector.
C28_EmptySubSectorFaults ==
    /\ Linking
    /\ ret.stage = "setReferences"
    /\ TablesOf(file, "SSECTORS") = <<BinSubSector(0, 0)>>
    /\ Len(TablesOf(file, "NODES")) = 1
    /\ ret.err = Panic
    /\ ret.level = NoLevel

\* The subsectors of every returned level hold their segments.
C28_SegmentsCopied ==
    LevelReturned =>
        \A i \in 1..Len(ret.level.SubSectors) :
            HoldsItsSegments(ret.level, ret.level.SubSectors[i])

\* A subsector of two segments, the second on a side of another sector.
C28_TwoSegmentsHeld ==
    /\ LevelReturned
    /\ Len(ret.level.SubSectors) = 2
    /\ Len(ret.level.SubSectors[1].LineSegments) = 2
    /\ ret.level.SubSectors[1].Sector = 0
    /\ ret.level.Sides[ret.level.SubSectors[1].LineSegments[2].Side + 1].Sector = 1
    /\ ret.level.SubSectors[2].LineSegments
          = SubSeq(ret.level.LineSegments, 2, 3)

(***************************************************************************)
(* The offset of the file between calls.                                   *)
(***************************************************************************)
\* The operations the last call made on the file
IsRead(k) == ret.ops[k].op = "Read"

\* The k-th operation of the last call follows a seek, made for the same
\* lump, that asked for that lump's offset and landed on it
FollowsSeek(k) ==
    /\ k > 1
    /\ ret.ops[k - 1].op = "Seek"
    /\ ret.ops[k - 1].lump = ret.ops[k].lump
    /\ ret.ops[k - 1].want = w.lumpInfos[ret.ops[k].lump + 1].Filepos
    /\ ret.ops[k - 1].at = ret.ops[k - 1].want

\* C29: when the calls on one archive do not overlap, after any sequence of
\* GetPicture and ReadLevel calls every lump read returns the bytes that
\* start at that lump's own file offset: each read is preceded, within the
\* same call, by an absolute seek that landed on the requested offset, so
\* the offset left by an earlier call never influences a later one.
C29_ReadsAtOwnOffset ==
    \A k \in 1..Len(ret.ops) :
        IsRead(k) =>
            /\ ret.ops[k].at = w.lumpInfos[ret.ops[k].lump + 1].Filepos
            /\ FollowsSeek(k)

\* ReadLevel after a GetPicture of TITLEPIC, on an archive whose lumps lie
\* at different offsets: ten reads, each at the offset of its own lump, and
\* the file is left behind the last of them.
C29_LevelReadAfterPicture ==
    /\ ret.op = "ReadLevel"
    /\ ret.err = ""
    /\ Has(w.Pictures, "TITLEPIC")
    /\ Cardinality({k \in 1..Len(ret.ops) : IsRead(k)}) = LevelLumps
    /\ Cardinality({ret.ops[k].at : k \in {j \in 1..Len(ret.ops) : IsRead(j)}})
          = LevelLumps
    /\ \A k \in 1..Len(ret.ops) :
          IsRead(k) => ret.ops[k].at = file.dir[ret.ops[k].lump + 1].Filepos
    /\ w.pos = file.dir[LevelLumps + 1].Filepos + file.dir[LevelLumps + 1].Size
    /\ w.pos # file.dir[w.lumpNums["TITLEPIC"] + 1].Filepos

\* The reads among the file operations ops
IsReadOp(o) == o.op = "Read"

ReadsOf(ops) == SelectSeq(ops, IsReadOp)

\* The reads of a call do not depend on the offset the call before it left:
\* they are those of the same call on a file at offset 0.
C29_OffsetForgotten ==
    [][/\ ret'.op = "GetPicture" =>
             ReadsOf(ret'.ops)
                = ReadsOf(GetPictureFile(file, w.lumpNums, w.lumpInfos,
                                         w.Pictures, w.PicturesNil, ret'.arg,
                                         [pos |-> 0, ops |-> <<>>]).ops)
       /\ ret'.op = "ReadLevel" =>
             ReadsOf(ret'.ops)
                = ReadsOf(ReadLevelOp(file, [w EXCEPT !.pos = 0], ret'.arg,
                                      user'.proto).file.ops)]_vars

\* GetPicture of a picture that is not cached reads its lump at the lump's
\* offset although the call before it left the file elsewhere.
C29_PictureReadAtOffset ==
    /\ ret.op = "GetPicture"
    /\ ret.err = ""
    /\ ~ret.hit
    /\ Len(ret.ops) = 2
    /\ ret.ops[2].at = file.dir[ret.ops[2].lump + 1].Filepos
    /\ ret.ops[2].at > HeaderSize

(***************************************************************************)
(* The flipped rotations of the sprites.                                   *)
(***************************************************************************)
\* The lump named n assigns the slot of rotation d (1 .. 8) through the
\* second frame/rotation pair of its name
BySecondPair(n, d) ==
    /\ Len(n) = 8
    /\ CharAt(n, 7) = CharAt(n, 5)
    /\ CharAt(n, 8) = SubSeq(Digits, d + 1, d + 1)

\* The slot of rotation d of a frame was last assigned, by the lump whose
\* picture it holds, through the second pair of that lump's name
LastBySecondPair(slot, d) ==
    /\ slot.Picture # NilRef
    /\ BySecondPair(NameOfRef(w.Pictures, slot.Picture), d)

\* C30: after the sprite decoder has processed any sequence of sprite
\* lumps, a rotation slot is marked is_flipped if and only if the lump that
\* last assigned its picture assigned it through the second frame/rotation
\* pair of an 8-character name; a slot last written by a first pair is not
\* flipped, whatever lumps were processed earlier.
C30_FlippedIffSecondPair ==
    w.open =>
        \A s \in DOMAIN w.Sprites : \A k \in 1..Len(w.Sprites[s]) : \A d \in 1..8 :
            w.Sprites[s][k][d].IsFlipped
                <=> LastBySecondPair(w.Sprites[s][k][d], d)

\* TROOA8 after TROOA2A8: the slot of rotation 8 holds the picture of
\* TROOA8, assigned through a first pair, and is still marked flipped.
C30_FlagOutlivesPicture ==
    /\ w.open
    /\ SpriteNames(file) = <<"TROOA2A8", "TROOA8">>
    /\ w.Sprites["TROO"][1][8].Picture = w.Pictures["TROOA8"]
    /\ w.Sprites["TROO"][1][8].IsFlipped
    /\ ~w.Sprites["TROO"][1][2].IsFlipped

\* A slot last assigned through a second pair is marked flipped.
C30_SecondPairFlips ==
    w.open =>
        \A s \in DOMAIN w.Sprites : \A k \in 1..Len(w.Sprites[s]) : \A d \in 1..8 :
            LastBySecondPair(w.Sprites[s][k][d], d)
                => w.Sprites[s][k][d].IsFlipped

\* TROOA2A8 after TROOA8: the slot of rotation 8 holds the picture of
\* TROOA2A8 and is marked flipped, the slot of rotation 2 is not.
C30_SecondPairLast ==
    /\ w.open
    /\ SpriteNames(file) = <<"TROOA8", "TROOA2A8">>
    /\ w.Sprites["TROO"][1][8].Picture = w.Pictures["TROOA2A8"]
    /\ w.Sprites["TROO"][1][8].IsFlipped
    /\ w.Sprites["TROO"][1][2].Picture = w.Pictures["TROOA2A8"]
    /\ ~w.Sprites["TROO"][1][2].IsFlipped

====
